---- MODULE Spec2Model ----
(***************************************************************************)
(* A model of the i915 VMA binding state machine (i915_vma.c) and of the   *)
(* TTM buffer-migration engine (i915_gem_ttm_move.c).                      *)
(*                                                                         *)
(* Several specifications share the module:                                *)
(*   SpecInstance  the per-object VMA tree: i915_vma_instance/vma_create   *)
(*                 run by concurrent threads;                              *)
(*   Spec          one address space with its VMAs: pin, unpin, bind,      *)
(*                 unbind, eviction;                                       *)
(*   SpecMove      one buffer object being moved: i915_ttm_move,           *)
(*                 __i915_ttm_move and the memcpy fallback work;           *)
(*   SpecCopy      the same with i915_gem_obj_copy_ttm;                    *)
(*   SpecColor     the drm_mm of an address space with cache coloring;     *)
(*   SpecPin       the pin count of one VMA under concurrent pinners;      *)
(*   SpecClose     the closed list of a GT and i915_vma_parked;            *)
(*   SpecBind      one pin of an unbound VMA, step by step;                *)
(*   SpecGgtt      the retry loop of __i915_ggtt_pin;                      *)
(*   SpecRace      pin, unpin and unbind racing on one VMA;                *)
(*   SpecPages     the page references of one VMA;                         *)
(*   SpecIomap     concurrent i915_vma_pin_iomap calls.                    *)
(* Sizes and offsets are counted in GTT pages (I915_GTT_PAGE_SIZE = 1).    *)
(***************************************************************************)
EXTENDS Integers, Sequences, FiniteSets, TLC

VARIABLES
    \* ---- SpecInstance: drm_i915_gem_object.vma and the calling threads
    objTree,      \* obj->vma.tree: [root, left, right] over VMA ids (0 = NULL)
    vmaObjs,      \* the VMAs allocated so far: id -> [vm, type, param, freed]
    thr,          \* thread -> [pc, vm, view, vma]: position and locals of a call
    results,      \* history: canonical key -> VMA ids i915_vma_instance returned
    \* ---- Spec: one address space (a GGTT with an aliasing ppGTT) and its VMAs
    vmAsync,      \* vm->bind_async_flags: the bind bits this vm binds asynchronously
    vmas,         \* VMA -> [pin, bound, error, canFence, node, resource, active, moving]
    boundList,    \* vm->bound_list, head first
    \* ---- SpecMove: one TTM buffer object and the move in flight
    fail_gpu_migration,     \* selftest switch (part_000:34)
    fail_work_allocation,   \* selftest switch (part_000:35)
    bo,           \* the object: attributes and recorded placement
    content,      \* what the object's backing store holds
    dstData,      \* what the destination memory of the move holds
    mv,           \* the i915_ttm_move call: position, arguments, locals, result
    gpu,          \* the migration request: [state, kind, error, cb]
    copy_work,    \* the i915_ttm_memcpy_work: [state, clear]
    \* ---- SpecColor: the drm_mm of one address space and the nodes in it
    color_adjust, \* i915_vm_has_cache_coloring(vm): drm_mm.color_adjust is set
    mmNodes,      \* VMA -> its drm_mm_node [allocated, start, size, color]
    \* ---- SpecPin: the flags word of one bound VMA and its pinners
    pinw,         \* [flags, pc, qad, ret]: vma->flags, the slow path's position,
                  \* the last results of try_qad_pin and of the slow path
    \* ---- SpecClose: the VMAs of one GT and its closed list
    gtc,          \* VMA -> [ggtt, open_count, list, alive]
    \* ---- SpecBind: one pin of an unbound VMA, step by step
    bs,           \* [pc, async, work, node, pte, ...], see BindIdle
    \* ---- SpecGgtt: one call of __i915_ggtt_pin and the GGTT around it
    gp,           \* [pc, size, mappable, pages, pinned, ret], see GgttInit
    \* ---- SpecRace: pinners and unbinders of one VMA, step by step
    pb,           \* see RaceInit
    \* ---- SpecPages: the page references of one VMA
    pg,           \* see PagesInit
    \* ---- SpecIomap: concurrent i915_vma_pin_iomap calls on one VMA
    io            \* see IomapInit

instVars == <<objTree, vmaObjs, thr, results>>
vmaVars == <<vmAsync, vmas, boundList>>
moveVars == <<fail_gpu_migration, fail_work_allocation, bo, content, dstData,
              mv, gpu, copy_work>>

colorVars == <<color_adjust, mmNodes>>

lateVars == <<gp, pb, pg, io>>

auxVars == <<pinw, gtc, bs, lateVars>>

coreVars == <<instVars, vmaVars, moveVars, colorVars, pinw, gtc, bs>>

vars == <<instVars, vmaVars, moveVars, colorVars, auxVars>>

NULL == 0

\* errno values used by the modelled code (returned negated, as in C)
EINTR == 4
EAGAIN == 11
ENOMEM == 12
EBUSY == 16
EINVAL == 22
ENODEV == 19
ENOSPC == 28
ERESTARTSYS == 512

(***************************************************************************)
(*                    SpecInstance: the per-object VMA tree                *)
(***************************************************************************)

NThreads == 2          \* concurrent callers of i915_vma_instance
MaxVmaAlloc == 2       \* i915_vma_alloc() calls that succeed in one behaviour
MaxViewParam == 2      \* distinct contents of a partial view

Threads == 1 .. NThreads

\* Address spaces of the tree model: 1 is the GGTT, 2 a ppGTT, 3 a ppGTT
\* smaller than the object.
InstVms == 1 .. 3
InstVmTotal(vm) == IF vm = 3 THEN 1 ELSE 4
InstVmIsGgtt(vm) == vm = 1
InstObjSize == 2

I915_GGTT_VIEW_NORMAL == 0
I915_GGTT_VIEW_PARTIAL == 1

\* The view argument: a NULL pointer, or a view of some type and contents.
NullView == [null |-> TRUE, type |-> 0, param |-> 0]
Views ==
    {NullView, [null |-> FALSE, type |-> I915_GGTT_VIEW_NORMAL, param |-> 0]}
    \cup {[null |-> FALSE, type |-> I915_GGTT_VIEW_PARTIAL, param |-> p] :
            p \in 1 .. MaxViewParam}

Sign(x) == IF x < 0 THEN -1 ELSE IF x > 0 THEN 1 ELSE 0

\* i915_vma_compare(vma, vm, view): the address space first, then the view
\* type, then the view contents over view->type bytes (none for a normal view).
i915_vma_compare(id, vm, view) ==
    LET v == vmaObjs[id] IN
    IF v.vm # vm THEN Sign(v.vm - vm)
    ELSE IF view.null THEN v.type
    ELSE IF v.type # view.type THEN Sign(v.type - view.type)
    ELSE IF view.type = I915_GGTT_VIEW_NORMAL THEN 0
    ELSE Sign(v.param - view.param)

\* The walk of obj->vma.tree shared by i915_vma_lookup and vma_create: where it
\* stops (pos), whether it stopped on an equal node, and the link to insert at.
RECURSIVE TreeWalk(_, _, _, _, _)
TreeWalk(n, parent, side, vm, view) ==
    IF n = NULL THEN [found |-> FALSE, pos |-> parent, side |-> side]
    ELSE LET cmp == i915_vma_compare(n, vm, view) IN
         IF cmp < 0 THEN TreeWalk(objTree.right[n], n, "R", vm, view)
         ELSE IF cmp > 0 THEN TreeWalk(objTree.left[n], n, "L", vm, view)
         ELSE [found |-> TRUE, pos |-> n, side |-> side]

i915_vma_lookup(vm, view) ==
    LET w == TreeWalk(objTree.root, NULL, "root", vm, view) IN
    IF w.found THEN w.pos ELSE NULL

\* A walk that does not stop on an equal node (a creator that never notices
\* it lost the race).
VmaCreateWalkNoEq(vm, view) ==
    LET RECURSIVE W(_, _, _)
        W(n, parent, side) ==
            IF n = NULL THEN [found |-> FALSE, pos |-> parent, side |-> side]
            ELSE IF i915_vma_compare(n, vm, view) < 0
                 THEN W(objTree.right[n], n, "R")
                 ELSE W(objTree.left[n], n, "L")
    IN W(objTree.root, NULL, "root")

\* vma_create's walk under obj->vma.lock.
VmaCreateWalk(vm, view) == TreeWalk(objTree.root, NULL, "root", vm, view)

\* rb_link_node: hang the new node where the walk ended.
TreeLink(id, w) ==
    IF w.side = "root" THEN [objTree EXCEPT !.root = id]
    ELSE IF w.side = "L" THEN [objTree EXCEPT !.left[w.pos] = id]
    ELSE [objTree EXCEPT !.right[w.pos] = id]

RECURSIVE TreeNodes(_)
TreeNodes(n) ==
    IF n = NULL THEN {}
    ELSE {n} \cup TreeNodes(objTree.left[n]) \cup TreeNodes(objTree.right[n])

\* The key a (vm, view) argument denotes: a NULL view is the normal view.
InstKey(vm, view) ==
    <<vm, view.type, IF view.type = I915_GGTT_VIEW_NORMAL THEN 0 ELSE view.param>>

InstKeys ==
    {InstKey(vm, view) : vm \in InstVms, view \in Views}

VmaIds == 1 .. MaxVmaAlloc

\* A thread outside i915_vma_instance holds no locals.
ThrIdle == [pc |-> "idle", vm |-> 1, view |-> NullView, vma |-> NULL]

InstInit ==
    /\ objTree = [root |-> NULL,
                  left |-> [i \in VmaIds |-> NULL],
                  right |-> [i \in VmaIds |-> NULL]]
    /\ vmaObjs = << >>
    /\ thr = [t \in Threads |-> ThrIdle]
    /\ results = [k \in InstKeys |-> {}]

\* Each action below that touches the tree is one obj->vma.lock critical section.
\* i915_vma_instance up to the unlock after the lookup; a hit returns at once.
InstanceLookup(t, vm, view) ==
    /\ thr[t].pc = "idle"
    /\ view.null \/ InstVmIsGgtt(vm)          \* GEM_BUG_ON(view && !ggtt)
    /\ LET vma == i915_vma_lookup(vm, view) IN
       IF vma # NULL
       THEN /\ thr' = [thr EXCEPT ![t] = ThrIdle]
            /\ results' = [results EXCEPT ![InstKey(vm, view)] = @ \cup {vma}]
       ELSE /\ thr' = [thr EXCEPT ![t] = [pc |-> "create", vm |-> vm, view |-> view,
                                           vma |-> NULL]]
            /\ UNCHANGED results
    /\ UNCHANGED <<objTree, vmaObjs, vmaVars, moveVars, colorVars, auxVars>>

\* The size vma_create gives the new VMA.
VmaCreateSize(view) ==
    IF ~view.null /\ view.type = I915_GGTT_VIEW_PARTIAL THEN view.param
    ELSE InstObjSize

\* vma_create up to spin_lock(&obj->vma.lock): allocation and the size check.
VmaCreateAlloc(t, oom) ==
    /\ thr[t].pc = "create"
    /\ ~oom => Len(vmaObjs) < MaxVmaAlloc
    /\ IF oom
       THEN /\ thr' = [thr EXCEPT ![t] = ThrIdle]     \* return ERR_PTR(-ENOMEM)
            /\ UNCHANGED vmaObjs
       ELSE LET id == Len(vmaObjs) + 1
                v == [vm |-> thr[t].vm,
                      type |-> IF thr[t].view.null THEN I915_GGTT_VIEW_NORMAL
                               ELSE thr[t].view.type,
                      param |-> IF thr[t].view.null
                                   \/ thr[t].view.type = I915_GGTT_VIEW_NORMAL
                                THEN 0 ELSE thr[t].view.param,
                      freed |-> FALSE]
            IN IF VmaCreateSize(thr[t].view) > InstVmTotal(thr[t].vm)
               THEN \* err_vma: the instance is freed, pos is still -E2BIG
                    /\ vmaObjs' = Append(vmaObjs, [v EXCEPT !.freed = TRUE])
                    /\ thr' = [thr EXCEPT ![t] = ThrIdle]
               ELSE /\ vmaObjs' = Append(vmaObjs, v)
                    /\ thr' = [thr EXCEPT ![t].pc = "insert", ![t].vma = id]
    /\ UNCHANGED <<objTree, results, vmaVars, moveVars, colorVars, auxVars>>

\* vma_create from spin_lock to its return: the walk, then either the link
\* and the return of the new VMA, or err_unlock: free ours, return the older.
VmaCreateInsert(t) ==
    /\ thr[t].pc = "insert"
    /\ LET w == VmaCreateWalk(thr[t].vm, thr[t].view)
           id == thr[t].vma
       IN IF w.found
          THEN /\ vmaObjs' = [vmaObjs EXCEPT ![id].freed = TRUE]
               /\ thr' = [thr EXCEPT ![t] = ThrIdle]
               /\ results' = [results EXCEPT
                                ![InstKey(thr[t].vm, thr[t].view)] = @ \cup {w.pos}]
               /\ UNCHANGED objTree
          ELSE /\ objTree' = TreeLink(id, w)
               /\ thr' = [thr EXCEPT ![t] = ThrIdle]
               /\ results' = [results EXCEPT
                                ![InstKey(thr[t].vm, thr[t].view)] = @ \cup {id}]
               /\ UNCHANGED vmaObjs
    /\ UNCHANGED <<vmaVars, moveVars, colorVars, auxVars>>

NextInstance ==
    \/ \E t \in Threads, vm \in InstVms, view \in Views : InstanceLookup(t, vm, view)
    \/ \E t \in Threads, oom \in BOOLEAN : VmaCreateAlloc(t, oom)
    \/ \E t \in Threads : VmaCreateInsert(t)


\* The view a VMA of the tree was created for.
ViewOf(id) ==
    [null |-> FALSE, type |-> vmaObjs[id].type, param |-> vmaObjs[id].param]

\* C1: the tree never holds two VMAs that compare equal, every caller of
\* i915_vma_instance for one (vm, view) key is handed the same VMA, and that
\* VMA is a live node of the tree that compares equal to the arguments (the
\* loser of an insertion race returns the winner's VMA, not its own).
C1_SingletonVma ==
    /\ \A a \in TreeNodes(objTree.root) : \A b \in TreeNodes(objTree.root) :
          a # b => i915_vma_compare(a, vmaObjs[b].vm, ViewOf(b)) # 0
    /\ \A k \in InstKeys :
          /\ Cardinality(results[k]) <= 1
          /\ \A id \in results[k] :
                /\ ~vmaObjs[id].freed
                /\ id \in TreeNodes(objTree.root)
                /\ <<vmaObjs[id].vm, vmaObjs[id].type, vmaObjs[id].param>> = k

\* Two creators raced for one key: the loser's instance has been freed and
\* both calls have returned.
C1_Witness ==
    \E id \in DOMAIN vmaObjs :
        /\ vmaObjs[id].freed
        /\ vmaObjs[id].vm # 3
        /\ results[<<vmaObjs[id].vm, vmaObjs[id].type, vmaObjs[id].param>>] # {}
        /\ \A t \in Threads : thr[t].pc = "idle"

(***************************************************************************)
(*            Spec: one address space, its VMAs, pin / bind / unbind       *)
(*                                                                         *)
(* The address space is a global GTT with an aliasing ppGTT, so a VMA can  *)
(* carry both bind bits.  Every call below runs its state-changing part    *)
(* under vm->mutex (pin, unbind, eviction) or as one atomic cmpxchg        *)
(* (try_qad_pin), so each call is one action.  Failures the code can meet  *)
(* in its collaborators (allocation, interruptible waits) are the "fault"  *)
(* input of the action.  PIN_OFFSET_BIAS, PIN_ZONE_4G and PIN_NOEVICT are  *)
(* not among the modelled inputs.                                          *)
(***************************************************************************)

NVma == 2              \* VMAs living in the address space
MaxPin == 1            \* pins held on one VMA at a time
VmTotal == 3           \* vm->total, in pages
MappableEnd == 2       \* ggtt->mappable_end, in pages
Zone4GEnd == 2         \* the end of the PIN_ZONE_4G window, in pages

Vmas == 1 .. NVma

I915_VMA_GLOBAL_BIND == "G"
I915_VMA_LOCAL_BIND == "L"
I915_VMA_BIND_MASK == {I915_VMA_GLOBAL_BIND, I915_VMA_LOCAL_BIND}
I915_GTT_MIN_ALIGNMENT == 1

EIO == 5

\* Per-VMA attributes fixed at creation (vma_create): size, fence size and
\* alignment (an untiled object: the fence covers exactly the VMA).
VmaSize(v) == IF v % 2 = 0 THEN 2 ELSE 1
VmaFenceSize(v) == VmaSize(v)
VmaFenceAlignment(v) == I915_GTT_MIN_ALIGNMENT
VmaDisplayAlignment(v) == I915_GTT_MIN_ALIGNMENT
\* obj->mm.rsgt: the object has a refcounted sg-table (a TTM object).
ObjHasRsgt(v) == v # 2
\* vma->resource->bi.pages is the object's own table (a normal view).
VmaPagesAreObjTable(v) == v <= 2

Max(a, b) == IF a >= b THEN a ELSE b
Min(a, b) == IF a <= b THEN a ELSE b

NoNode == [allocated |-> FALSE, start |-> 0, size |-> 0]

\* A VMA fresh from vma_create: unbound, unpinned, no node, no resource.
VmaFresh ==
    [pin |-> 0, bound |-> {}, error |-> FALSE, canFence |-> FALSE,
     node |-> NoNode, resource |-> NULL, active |-> FALSE, moving |-> "none"]

InList(bl, v) == \E i \in 1 .. Len(bl) : bl[i] = v

i915_vma_is_pinned(x) == x.pin > 0
i915_vma_is_bound(x, bits) == x.bound \cap bits # {}
drm_mm_node_allocated(x) == x.node.allocated

\* [start, start + size) of two nodes intersect.
Overlaps(s1, n1, s2, n2) == s1 < s2 + n2 /\ s2 < s1 + n1

\* The range [start, start+size) holds no allocated node of a VMA other than v.
RangeFree(vs, v, start, size) ==
    \A u \in Vmas \ {v} :
        vs[u].node.allocated =>
            ~Overlaps(start, size, vs[u].node.start, vs[u].node.size)

RemoveFromList(bl, v) == SelectSeq(bl, LAMBDA u : u # v)

\* __i915_vma_evict: drop the fence/mappable state, the resource, the bind and
\* error bits, and the bound-list link.
i915_vma_evict(w, v) ==
    [vs |-> [w.vs EXCEPT ![v].canFence = FALSE,
                         ![v].resource = NULL,
                         ![v].bound = {},
                         ![v].error = FALSE],
     bl |-> RemoveFromList(w.bl, v)]

\* drm_mm_remove_node(&vma->node)
drm_mm_remove_node(w, v) == [w EXCEPT !.vs[v].node = NoNode]

\* __i915_vma_evict and __i915_vma_unbind_async read through vma->resource: on
\* an unpinned VMA with a node and no resource the unbind dereferences NULL
\* and never returns.
VmaEvictOopses(x) ==
    drm_mm_node_allocated(x) /\ ~i915_vma_is_pinned(x) /\ x.resource = NULL

\* __i915_vma_unbind under vm->mutex; syncOk tells whether i915_vma_sync's
\* interruptible wait for the VMA's activity completes.
i915_vma_unbind_locked(w, v, syncOk) ==
    LET x == w.vs[v] IN
    IF ~drm_mm_node_allocated(x) THEN [w |-> w, ret |-> 0]
    ELSE IF i915_vma_is_pinned(x) THEN [w |-> w, ret |-> -EAGAIN]
    ELSE IF x.active /\ ~syncOk THEN [w |-> w, ret |-> -EINTR]
    ELSE [w |-> drm_mm_remove_node(
                    i915_vma_evict([w EXCEPT !.vs[v].active = FALSE], v), v),
          ret |-> 0]

RECURSIVE EvictAll(_, _)
\* Eviction of a set of idle, unpinned VMAs, each through __i915_vma_unbind.
EvictAll(w, victims) ==
    IF victims = {} THEN w
    ELSE LET u == CHOOSE u \in victims : TRUE IN
         EvictAll(i915_vma_unbind_locked(w, u, TRUE).w, victims \ {u})

\* What eviction may take: an allocated node of another VMA that is unpinned.
Evictable(vs, v) ==
    {u \in Vmas \ {v} : vs[u].node.allocated /\ ~i915_vma_is_pinned(vs[u])}

\* Offsets in [start, end) where a node of the size and alignment fits free.
FreeOffsets(vs, v, size, align, start, end) ==
    {o \in start .. (end - size) : o % align = 0 /\ RangeFree(vs, v, o, size)}

PlaceNode(w, v, o, size) ==
    [w EXCEPT !.vs[v].node = [allocated |-> TRUE, start |-> o, size |-> size]]

\* i915_gem_gtt_insert: any free, aligned hole inside [start, end); failing
\* that, eviction of unpinned VMAs until a hole exists; failing that -ENOSPC.
\* The outcomes are [w, ret].
i915_gem_gtt_insert(w, v, size, align, start, end) ==
    LET free == FreeOffsets(w.vs, v, size, align, start, end)
        plans == {V \in SUBSET Evictable(w.vs, v) :
                    /\ V # {}
                    /\ \A u \in V : ~VmaEvictOopses(w.vs[u])
                    /\ FreeOffsets(EvictAll(w, V).vs, v, size, align,
                                   start, end) # {}}
    IN IF free # {}
       THEN {[w |-> PlaceNode(w, v, o, size), ret |-> 0] : o \in free}
       ELSE IF plans = {} THEN {[w |-> w, ret |-> -ENOSPC]}
       ELSE UNION {
              {[w |-> PlaceNode(EvictAll(w, V), v, o, size), ret |-> 0] :
                 o \in FreeOffsets(EvictAll(w, V).vs, v, size, align, start, end)}
              : V \in plans}

\* i915_gem_gtt_reserve: the node at exactly this offset, after evicting the
\* nodes in the way; -ENOSPC if one of them is pinned.
i915_gem_gtt_reserve(w, v, size, offset) ==
    LET inWay == {u \in Vmas \ {v} :
                    /\ w.vs[u].node.allocated
                    /\ Overlaps(offset, size, w.vs[u].node.start,
                                w.vs[u].node.size)}
    IN IF \E u \in inWay : i915_vma_is_pinned(w.vs[u])
       THEN {[w |-> w, ret |-> -ENOSPC]}
       ELSE IF \E u \in inWay : VmaEvictOopses(w.vs[u]) THEN {}
       ELSE {[w |-> PlaceNode(EvictAll(w, inWay), v, offset, size), ret |-> 0]}

\* run-time width of the pin-count field of vma->flags
I915_VMA_PIN_MASK == 1023
I915_VMA_OVERFLOW == 512

\* The flags, size and alignment arguments of a pin.  fixed is the offset of
\* PIN_OFFSET_FIXED, or -1 without it; size 0 and align 0 ask for the VMA's own.
PinArgs ==
    {f \in [bind : (SUBSET I915_VMA_BIND_MASK) \ {{}},
            mappable : BOOLEAN, validate : BOOLEAN,
            fixed : {-1, 1}, size : {0, VmTotal}, align : {0, 2},
            zone4g : BOOLEAN] :
        /\ f.mappable => I915_VMA_GLOBAL_BIND \in f.bind
        /\ f.align # 0 => f.size = 0 /\ f.fixed # -1
        /\ f.zone4g => (~f.mappable /\ ~f.validate /\ f.fixed = -1
                         /\ f.align = 0)}

\* The end of the window i915_vma_insert searches.
VmaInsertEndPastTotal(f) == VmTotal + 1
VmaInsertEnd(f) ==
    LET end == IF f.mappable THEN Min(VmTotal, MappableEnd) ELSE VmTotal
    IN IF f.zone4g THEN Min(end, Zone4GEnd) ELSE end

\* i915_vma_insert: the size it looks for.
VmaInsertSize(v, f) ==
    LET size == Max(f.size, VmaSize(v))
    IN IF f.mappable THEN Max(size, VmaFenceSize(v)) ELSE size

\* i915_vma_insert: the early rejection (a variant that leaves it to the
\* allocator).
InsertOversizeNever(size, end) == FALSE
\* i915_vma_insert: the early rejection of a request larger than its window.
InsertOversize(size, end) == size > end

\* The arguments of i915_vma_misplaced: size, alignment (zero or a power of
\* two) and the flags PIN_MAPPABLE, PIN_OFFSET_BIAS, PIN_OFFSET_FIXED with the
\* offset they carry (flags & PIN_OFFSET_MASK).
MisplacedArgs ==
    [size : 0..VmTotal, alignment : {0, 1, 2}, mappable : BOOLEAN,
     bias : BOOLEAN, fixed : BOOLEAN, offset : 0..(VmTotal - 1)]

\* i915_vma_misplaced: the PIN_OFFSET_BIAS test (a variant without it).
BelowBiasIgnored(start, a) == FALSE
\* i915_vma_misplaced: the PIN_OFFSET_BIAS test.
BelowBias(start, a) == a.bias /\ start < a.offset

\* i915_vma_misplaced on the VMA record x.
i915_vma_misplaced(x, a) ==
    IF ~x.node.allocated THEN FALSE
    ELSE IF x.error THEN TRUE
    ELSE IF x.node.size < a.size THEN TRUE
    ELSE IF a.alignment # 0 /\ x.node.start % a.alignment # 0 THEN TRUE
    ELSE IF a.mappable /\ ~x.canFence THEN TRUE
    ELSE IF BelowBias(x.node.start, a) THEN TRUE
    ELSE IF a.fixed /\ x.node.start # a.offset THEN TRUE
    ELSE FALSE

\* __i915_vma_set_map_and_fenceable
i915_vma_set_map_and_fenceable(w, v) ==
    LET n == w.vs[v].node
        fenceable == n.size >= VmaFenceSize(v)
                     /\ n.start % VmaFenceAlignment(v) = 0
        mappable == n.start + VmaFenceSize(v) <= MappableEnd
    IN [w EXCEPT !.vs[v].canFence = (mappable /\ fenceable)]

\* i915_vma_insert: outcomes [w, ret, searched].  intr: an eviction it needs
\* is interrupted in its wait; searched: i915_gem_gtt_reserve or
\* i915_gem_gtt_insert was called.
i915_vma_insert(w, v, f, intr) ==
    LET align0 == Max(f.align, VmaDisplayAlignment(v))
        size == VmaInsertSize(v, f)
        align == IF f.mappable THEN Max(align0, VmaFenceAlignment(v)) ELSE align0
        start == 0
        end == VmaInsertEnd(f)
        found == IF f.fixed # -1
                 THEN IF f.fixed % align # 0 \/ f.fixed + size > end
                      THEN {[w |-> w, ret |-> -EINVAL, searched |-> FALSE]}
                      ELSE {[w |-> o.w, ret |-> o.ret, searched |-> TRUE] :
                              o \in i915_gem_gtt_reserve(w, v, size, f.fixed)}
                 ELSE {[w |-> o.w, ret |-> o.ret, searched |-> TRUE] :
                         o \in i915_gem_gtt_insert(w, v, size, align, start, end)}
        evicts == \E o \in found : \E u \in Vmas \ {v} :
                     w.vs[u].node.allocated /\ ~o.w.vs[u].node.allocated
    IN IF InsertOversize(size, end)
       THEN {[w |-> w, ret |-> -ENOSPC, searched |-> FALSE]}
       ELSE IF intr
            THEN IF evicts THEN {[w |-> w, ret |-> -EINTR, searched |-> TRUE]}
                 ELSE {}
       ELSE {IF o.ret # 0 THEN o
             ELSE [o EXCEPT !.w = [o.w EXCEPT !.bl = Append(@, v)]] : o \in found}

\* i915_gem_object_wait_moving_fence(obj, true): outcomes [moving, ret].  A
\* pending fence either signals during the wait, or the wait is interrupted.
WaitMovingFence(m) ==
    CASE m \in {"none", "ok"} -> {[moving |-> m, ret |-> 0]}
      [] m = "err" -> {[moving |-> m, ret |-> -EIO]}
      [] m = "pending" -> {[moving |-> "ok", ret |-> 0],
                           [moving |-> "err", ret |-> -EIO],
                           [moving |-> "pending", ret |-> -ERESTARTSYS]}

\* Whether i915_vma_pin_ww prepares a binding work (every pin does).
NeedWorkAlways(bind, moving) == TRUE
\* Whether i915_vma_pin_ww prepares a binding work.
NeedWork(bind, moving) == (bind \cap vmAsync # {}) \/ moving # "none"

\* Whether i915_vma_bind hands the binding to the work.
BindIsAsync(work, bind_flags) == work /\ (bind_flags \cap vmAsync # {})

\* i915_vma_bind frees the vma_res it installed only when the moving-fence
\* wait fails; a variant that leaves it allocated on that path.
BindWaitFailKeepsRes(installed) == 0
\* The i915_vma_resource_free calls that reach the vma_res argument when the
\* moving-fence wait fails: the free of vma->resource is one of vma_res when
\* vma_res was installed.
BindWaitFailFrees(installed) == IF installed THEN 1 ELSE 0

\* i915_vma_bind on an allocated node: outcomes [w, ret, inline,
\* res_installed, res_freed].  depFail: awaiting the async unbinds in the
\* range fails.  The preallocated vma_res is installed as vma->resource unless
\* one is installed already; res_installed tells whether vma->resource is
\* vma_res on return, res_freed counts the i915_vma_resource_free calls that
\* reached vma_res.
i915_vma_bind(w, v, bind, work, depFail) ==
    LET x == w.vs[v]
        bind_flags == (bind \cap I915_VMA_BIND_MASK) \ x.bound
        install == x.resource = NULL
        w1 == IF x.resource # NULL THEN w ELSE [w EXCEPT !.vs[v].resource = 1]
        rebindFree == IF install THEN 0 ELSE 1
    IN IF bind_flags = {}
       THEN {[w |-> w, ret |-> 0, inline |-> FALSE,
              res_installed |-> FALSE, res_freed |-> 1]}
       ELSE IF depFail
            THEN {[w |-> w, inline |-> FALSE,
                   ret |-> IF BindIsAsync(work, bind_flags) THEN -ENOMEM
                           ELSE -ERESTARTSYS,
                   res_installed |-> FALSE, res_freed |-> 1]}
       ELSE IF BindIsAsync(work, bind_flags)
            THEN {[w |-> [w1 EXCEPT !.vs[v].bound = @ \cup bind_flags],
                   ret |-> 0, inline |-> FALSE,
                   res_installed |-> install, res_freed |-> rebindFree]}
       ELSE {IF m.ret # 0
             THEN [w |-> [w1 EXCEPT !.vs[v].resource = NULL,
                                    !.vs[v].moving = m.moving],
                   ret |-> m.ret, inline |-> FALSE,
                   res_installed |-> FALSE,
                   res_freed |-> rebindFree + BindWaitFailFrees(install)]
             ELSE [w |-> [w1 EXCEPT !.vs[v].bound = @ \cup bind_flags,
                                    !.vs[v].moving = m.moving],
                   ret |-> 0, inline |-> TRUE,
                   res_installed |-> install, res_freed |-> rebindFree]
             : m \in WaitMovingFence(x.moving)}

\* i915_vma_pin_ww: the pin field's wrap test (a variant without it).
PinWouldWrapNever(pin) == FALSE
\* i915_vma_pin_ww: !((bound + 1) & I915_VMA_PIN_MASK), on the pin field.
PinWouldWrap(pin) == (pin + 1) % (I915_VMA_PIN_MASK + 1) = 0

\* try_qad_pin: bound & I915_VMA_OVERFLOW, on the pin field.
PinOverflowBit(pin) == (pin \div I915_VMA_OVERFLOW) % 2 = 1

\* try_qad_pin without its test of I915_VMA_ERROR.
TryQadPinNoErrorTest(x, f) ==
    IF f.validate THEN [ok |-> f.bind \subseteq x.bound, pin |-> x.pin]
    ELSE IF ~(f.bind \subseteq x.bound) THEN [ok |-> FALSE, pin |-> x.pin]
    ELSE IF PinOverflowBit(x.pin) THEN [ok |-> FALSE, pin |-> x.pin]
    ELSE [ok |-> TRUE, pin |-> x.pin + 1]

\* try_qad_pin: [ok, pin], the result and the pin count it leaves.
try_qad_pin(x, f) ==
    IF f.validate THEN [ok |-> f.bind \subseteq x.bound, pin |-> x.pin]
    ELSE IF ~(f.bind \subseteq x.bound) THEN [ok |-> FALSE, pin |-> x.pin]
    ELSE IF PinOverflowBit(x.pin) \/ x.error THEN [ok |-> FALSE, pin |-> x.pin]
    ELSE [ok |-> TRUE, pin |-> x.pin + 1]

\* The pin count i915_vma_pin_ww leaves after a bind that returned err
\* (a variant that pins whatever err is).
PinAfterBindAnyway(pin, err, validate) == IF validate THEN pin ELSE pin + 1
\* The pin count i915_vma_pin_ww leaves after a bind that returned err.
PinAfterBind(pin, err, validate) ==
    IF err = 0 /\ ~validate THEN pin + 1 ELSE pin

\* err_remove: a VMA left with no bind bit loses its node and its list link.
PinErrRemove(w, v) ==
    IF ~i915_vma_is_bound(w.vs[v], I915_VMA_BIND_MASK)
    THEN drm_mm_remove_node([w EXCEPT !.bl = RemoveFromList(@, v)], v)
    ELSE w

\* list_move_tail(&vma->vm_link, &vma->vm->bound_list)
ListMoveTail(bl, v) == Append(RemoveFromList(bl, v), v)

PinFaults ==
    {"none", "get_pages", "vm_lock", "work_alloc", "pt_stash", "vma_res",
     "mutex", "active_acquire", "evict_intr", "bind_dep"}

\* The faults that end the call before the node is looked for.
PinEarlyFaults ==
    {"get_pages", "vm_lock", "work_alloc", "pt_stash", "vma_res", "mutex",
     "active_acquire"}

\* The calls of i915_vma_pin_ww: arguments and fault.  A call that fails
\* before i915_vma_insert reads only the bind and validate flags.
PinCalls ==
    {c \in PinArgs \X PinFaults :
        c[2] \in PinEarlyFaults =>
            c[1].fixed = -1 /\ c[1].size = 0 /\ ~c[1].mappable}

\* err_vma_res: the i915_vma_resource_free calls of i915_vma_pin_ww on its
\* vma_res, whatever became of it.
PinFreesVmaResAlways(passed) == 1
\* err_vma_res: the i915_vma_resource_free calls of i915_vma_pin_ww on its
\* vma_res; the pointer is NULL once it was passed to i915_vma_bind.
PinFreesVmaRes(passed) == IF passed THEN 0 ELSE 1

\* i915_vma_pin_ww after try_qad_pin failed: outcomes [w, ret, work, inline,
\* res_alloc, res_installed, res_freed]: whether i915_vma_resource_alloc gave
\* a vma_res, whether it ended up as vma->resource, and the frees it got.
PinSlow(v, f, fault) ==
    LET x == vmas[v]
        w0 == [vs |-> vmas, bl |-> boundList]
        needWork == NeedWork(f.bind, x.moving)
        Early(ret, wk) == {[w |-> w0, ret |-> ret, work |-> wk, inline |-> FALSE,
                            res_alloc |-> FALSE, res_installed |-> FALSE,
                            res_freed |-> 0]}
        Late(w1, ret, wk) == [w |-> w1, ret |-> ret, work |-> wk,
                              inline |-> FALSE, res_alloc |-> TRUE,
                              res_installed |-> FALSE,
                              res_freed |-> PinFreesVmaRes(FALSE)]
        Fail(ret, wk) == {Late(w0, ret, wk)}
    IN CASE fault = "get_pages" ->
              IF x.bound = {} THEN Early(-ENOMEM, FALSE) ELSE {}
         [] fault = "vm_lock" -> IF needWork THEN Early(-EINTR, FALSE) ELSE {}
         [] fault = "work_alloc" -> IF needWork THEN Early(-ENOMEM, FALSE) ELSE {}
         [] fault = "pt_stash" -> IF needWork THEN Early(-ENOMEM, TRUE) ELSE {}
         [] fault = "vma_res" -> Early(-ENOMEM, needWork)
         [] fault = "mutex" -> Fail(-EINTR, needWork)
         [] OTHER ->
              IF x.error THEN Fail(-ENOMEM, needWork)
              ELSE IF PinWouldWrap(x.pin)
                   THEN Fail(-EAGAIN, needWork)
              ELSE IF f.bind \ x.bound = {}
                   THEN IF fault # "none" THEN {}
                        ELSE {Late([w0 EXCEPT !.vs[v].pin =
                                        IF f.validate THEN @ ELSE @ + 1],
                                   0, needWork)}
              ELSE IF fault = "active_acquire" THEN Fail(-ENOMEM, needWork)
              ELSE LET ins == IF x.bound = {}
                              THEN i915_vma_insert(w0, v, f, fault = "evict_intr")
                              ELSE IF fault = "evict_intr" THEN {}
                                   ELSE {[w |-> w0, ret |-> 0,
                                          searched |-> FALSE]}
                   IN UNION {
                        IF i.ret # 0
                        THEN IF fault = "bind_dep" THEN {}
                             ELSE {Late(i.w, i.ret, needWork)}
                        ELSE LET w1 == IF x.bound = {}
                                       THEN i915_vma_set_map_and_fenceable(i.w, v)
                                       ELSE i.w
                             IN {[w |-> PinErrRemove(
                                          [b.w EXCEPT
                                             !.vs[v].pin =
                                                PinAfterBind(@, b.ret, f.validate),
                                             !.bl = IF b.ret = 0
                                                    THEN ListMoveTail(@, v) ELSE @],
                                          v),
                                  ret |-> b.ret, work |-> needWork,
                                  inline |-> b.inline, res_alloc |-> TRUE,
                                  res_installed |-> b.res_installed,
                                  res_freed |-> b.res_freed
                                                  + PinFreesVmaRes(TRUE)]
                                 : b \in i915_vma_bind(w1, v, f.bind, needWork,
                                                       fault = "bind_dep")}
                        : i \in ins}

\* intel_runtime_pm_get in the unbind entry points: a wakeref is taken when
\* the VMA is bound in the global GTT.
RpmGet(x) == IF i915_vma_is_bound(x, {I915_VMA_GLOBAL_BIND}) THEN 1 ELSE 0

\* err_rpm / out_rpm without the intel_runtime_pm_put.
RpmPutNever(wakeref) == 0
\* err_rpm / out_rpm: if (wakeref) intel_runtime_pm_put(): the number of puts.
RpmPut(wakeref) == wakeref

\* intel_runtime_pm_get in i915_vma_pin_ww: a wakeref is taken for PIN_GLOBAL
\* once i915_vma_get_pages has succeeded.
PinRpmGet(f, fault) ==
    IF fault # "get_pages" /\ I915_VMA_GLOBAL_BIND \in f.bind THEN 1 ELSE 0

\* i915_vma_pin_ww(vma, ww, size, alignment, flags): outcomes
\* [w, ret, work, inline, fast, res_alloc, res_installed, res_freed,
\* wakeref_get, wakeref_put].  The quick path is try_qad_pin alone; every
\* return of the slow path after the wakeref was taken is through err_rpm.
i915_vma_pin_ww(v, f, fault) ==
    LET q == try_qad_pin(vmas[v], f) IN
    IF q.ok
    THEN IF fault # "none" THEN {}
         ELSE {[w |-> [vs |-> [vmas EXCEPT ![v].pin = q.pin], bl |-> boundList],
                ret |-> 0, work |-> FALSE, inline |-> FALSE, fast |-> TRUE,
                res_alloc |-> FALSE, res_installed |-> FALSE, res_freed |-> 0,
                wakeref_get |-> 0, wakeref_put |-> 0]}
    ELSE {[w |-> o.w, ret |-> o.ret, work |-> o.work, inline |-> o.inline,
           fast |-> FALSE, res_alloc |-> o.res_alloc,
           res_installed |-> o.res_installed, res_freed |-> o.res_freed,
           wakeref_get |-> PinRpmGet(f, fault),
           wakeref_put |-> RpmPut(PinRpmGet(f, fault))]
          : o \in PinSlow(v, f, fault)}

\* A caller pins the VMA.
PinWw(v, f, fault) ==
    /\ vmas[v].pin < MaxPin
    /\ \E o \in i915_vma_pin_ww(v, f, fault) :
          /\ vmas' = o.w.vs
          /\ boundList' = o.w.bl
    /\ UNCHANGED <<vmAsync, instVars, moveVars, colorVars, auxVars>>

\* i915_vma_unpin: drop one pin.
Unpin(v) ==
    /\ i915_vma_is_pinned(vmas[v])
    /\ vmas' = [vmas EXCEPT ![v].pin = @ - 1]
    /\ UNCHANGED <<vmAsync, boundList, instVars, moveVars, colorVars, auxVars>>

\* __i915_vma_unbind called with vm->mutex held (eviction, release).
VmaUnbindLocked(v, syncOk) ==
    /\ vmas[v].active \/ syncOk
    /\ VmaEvictOopses(vmas[v]) => (vmas[v].active /\ ~syncOk)
    /\ LET o == i915_vma_unbind_locked([vs |-> vmas, bl |-> boundList], v,
                                       syncOk)
       IN /\ vmas' = o.w.vs
          /\ boundList' = o.w.bl
    /\ UNCHANGED <<vmAsync, instVars, moveVars, colorVars, auxVars>>

UnbindFaults == {"none", "sync", "mutex"}

\* The value i915_vma_unbind returns for a pinned VMA (a variant that
\* carries on to the unbind).
UnbindPinnedCheckNone(x) == 0
\* The value i915_vma_unbind and i915_vma_unbind_async return for a pinned
\* VMA, 0 when the VMA is not pinned.
UnbindPinnedCheck(x) == IF i915_vma_is_pinned(x) THEN -EAGAIN ELSE 0

\* The address space as the calls below take it.
World == [vs |-> vmas, bl |-> boundList]

\* i915_vma_unbind: [w, ret, wakeref_get, wakeref_put].
i915_vma_unbind(w, v, fault) ==
    LET x == w.vs[v]
        synced == [w EXCEPT !.vs[v].active = FALSE]
        wakeref == RpmGet(x)
        Early(w1, ret) == [w |-> w1, ret |-> ret,
                           wakeref_get |-> 0, wakeref_put |-> 0]
        Exit(w1, ret) == [w |-> w1, ret |-> ret,
                          wakeref_get |-> wakeref, wakeref_put |-> RpmPut(wakeref)]
    IN IF fault = "sync"
       THEN IF x.active THEN {Early(w, -EINTR)} ELSE {}
       ELSE IF ~drm_mm_node_allocated(x) THEN
            IF fault = "none" THEN {Early(synced, 0)} ELSE {}
       ELSE IF UnbindPinnedCheck(x) # 0 THEN
            IF fault = "none" THEN {Early(synced, UnbindPinnedCheck(x))}
            ELSE {}
       ELSE IF fault = "mutex" THEN {Exit(synced, -EINTR)}
       ELSE IF VmaEvictOopses(x) THEN {}
       ELSE {Exit(i915_vma_unbind_locked(synced, v, TRUE).w,
                  i915_vma_unbind_locked(synced, v, TRUE).ret)}

VmaUnbind(v, fault) ==
    /\ \E o \in i915_vma_unbind(World, v, fault) :
          /\ vmas' = o.w.vs
          /\ boundList' = o.w.bl
    /\ UNCHANGED <<vmAsync, instVars, moveVars, colorVars, auxVars>>

\* "trylock": vm->mutex is held by another context when the call wants it;
\* "mutex": the wait for it is interrupted.
UnbindAsyncFaults == {"none", "reserve", "trylock", "mutex", "await_active"}

\* __i915_vma_unbind_async under vm->mutex: [w, ret]; awaitFail: chaining the
\* unbind after the VMA's activity fails.
i915_vma_unbind_async_locked(w, v, awaitFail) ==
    LET x == w.vs[v] IN
    IF ~drm_mm_node_allocated(x) THEN [w |-> w, ret |-> 0]
    ELSE IF i915_vma_is_pinned(x) \/ ~VmaPagesAreObjTable(v)
         THEN [w |-> w, ret |-> -EAGAIN]
    ELSE IF awaitFail THEN [w |-> w, ret |-> -EBUSY]
    ELSE [w |-> drm_mm_remove_node(i915_vma_evict(w, v), v), ret |-> 0]

\* Taking vm->mutex in i915_vma_unbind_async whatever trylock_vm says: always
\* mutex_lock_interruptible_nested.
UnbindAsyncLockWaits(trylock, held, intr) ==
    [err |-> IF intr THEN -EINTR ELSE 0, blocked |-> held]
\* Taking vm->mutex in i915_vma_unbind_async: [err, blocked].  held: another
\* context holds the mutex; intr: a wait for it is interrupted.
UnbindAsyncLock(trylock, held, intr) ==
    IF trylock
    THEN [err |-> IF held THEN -EBUSY ELSE 0, blocked |-> FALSE]
    ELSE [err |-> IF intr THEN -EINTR ELSE 0, blocked |-> held]

\* i915_vma_unbind_async without the dma_resv_add_shared_fence.
ResvAddNoFence(fence) == 0
\* The dma_resv_add_shared_fence calls of i915_vma_unbind_async for the
\* fence __i915_vma_unbind_async returned (none for NULL or an error).
ResvAddSharedFence(fence) == IF fence THEN 1 ELSE 0

\* i915_vma_unbind_async(vma, trylock_vm): [w, ret, wakeref_get, wakeref_put,
\* reserved, fence, shared, excl, blocked]: the wakerefs taken and released,
\* whether a shared slot was reserved before __i915_vma_unbind_async ran,
\* whether that returned an unbind fence, the fences added to the object's
\* reservation object as shared and as exclusive, and whether the call
\* waited for vm->mutex.
i915_vma_unbind_async(w, v, trylock, fault) ==
    LET x == w.vs[v]
        Out(w1, ret, get, put, reserved, fence, shared, blocked) ==
            [w |-> w1, ret |-> ret, wakeref_get |-> get, wakeref_put |-> put,
             reserved |-> reserved, fence |-> fence, shared |-> shared,
             excl |-> 0, blocked |-> blocked]
        Early(ret) == IF fault = "none"
                      THEN {Out(w, ret, 0, 0, FALSE, FALSE, 0, FALSE)} ELSE {}
        wakeref == RpmGet(x)
        lock == UnbindAsyncLock(trylock, fault \in {"trylock", "mutex"},
                                fault = "mutex")
        Exit(w1, ret, fence) ==
            Out(w1, ret, wakeref, RpmPut(wakeref), TRUE, fence,
                ResvAddSharedFence(fence), lock.blocked)
        u == i915_vma_unbind_async_locked(w, v, fault = "await_active")
    IN IF ~drm_mm_node_allocated(x) THEN Early(0)
       ELSE IF UnbindPinnedCheck(x) # 0 THEN Early(UnbindPinnedCheck(x))
       ELSE IF ~ObjHasRsgt(v) THEN Early(-EBUSY)
       ELSE IF fault = "reserve"
            THEN {Out(w, -EBUSY, 0, 0, FALSE, FALSE, 0, FALSE)}
       ELSE IF fault = "mutex" /\ trylock THEN {}
       ELSE IF lock.err # 0 THEN {Exit(w, lock.err, FALSE)}
       ELSE IF VmaEvictOopses(x) THEN {}
       ELSE {Exit(u.w, u.ret, u.ret = 0)}

VmaUnbindAsync(v, trylock, fault) ==
    /\ \E o \in i915_vma_unbind_async(World, v, trylock, fault) :
          /\ vmas' = o.w.vs
          /\ boundList' = o.w.bl
    /\ UNCHANGED <<vmAsync, instVars, moveVars, colorVars, auxVars>>

\* _i915_vma_move_to_active: a request starts using the pinned, bound VMA.
MoveToActive(v) ==
    /\ i915_vma_is_pinned(vmas[v])
    /\ vmas[v].bound # {}
    /\ ~vmas[v].active
    /\ vmas' = [vmas EXCEPT ![v].active = TRUE]
    /\ UNCHANGED <<vmAsync, boundList, instVars, moveVars, colorVars, auxVars>>

\* __i915_vma_retire: the last request using the VMA completes.
Retire(v) ==
    /\ vmas[v].active
    /\ vmas' = [vmas EXCEPT ![v].active = FALSE]
    /\ UNCHANGED <<vmAsync, boundList, instVars, moveVars, colorVars, auxVars>>

\* A move of the VMA's object leaves a migration fence behind
\* (ttm_bo_move_accel_cleanup); i915_ttm_move_notify has unbound the VMA.
ObjectMoves(v) ==
    /\ ObjHasRsgt(v)
    /\ ~drm_mm_node_allocated(vmas[v])
    /\ vmas[v].moving # "pending"
    /\ vmas' = [vmas EXCEPT ![v].moving = "pending"]
    /\ UNCHANGED <<vmAsync, boundList, instVars, moveVars, colorVars, auxVars>>

\* The migration fence signals, with or without an error.
MovingSignals(v, ok) ==
    /\ vmas[v].moving = "pending"
    /\ vmas' = [vmas EXCEPT ![v].moving = IF ok THEN "ok" ELSE "err"]
    /\ UNCHANGED <<vmAsync, boundList, instVars, moveVars, colorVars, auxVars>>

\* vm->bind_async_flags: none (a plain GGTT) or the local bind of an aliasing
\* ppGTT.
\* The VMA is marked I915_VMA_ERROR (no statement of the source sets the bit;
\* the specification names it as a state a bound VMA can be put in).  It is
\* marked while no caller holds a pin on it.
VmaSetError(v) ==
    /\ vmas[v].bound # {}
    /\ ~i915_vma_is_pinned(vmas[v])
    /\ ~vmas[v].error
    /\ vmas' = [vmas EXCEPT ![v].error = TRUE]
    /\ UNCHANGED <<vmAsync, boundList, instVars, moveVars, colorVars, auxVars>>

AsyncChoices == {{}, {I915_VMA_LOCAL_BIND}}

VmaInit ==
    /\ vmAsync \in AsyncChoices
    /\ vmas = [v \in Vmas |-> VmaFresh]
    /\ boundList = << >>

\* The address space while only the VMA tree is exercised.
VmaQuiet ==
    /\ vmAsync = {}
    /\ vmas = [v \in Vmas |-> VmaFresh]
    /\ boundList = << >>


(***************************************************************************)
(*             SpecMove: i915_ttm_move and the failsafe migration          *)
(*                                                                         *)
(* One buffer object moves between system memory and local memory.  A call *)
(* of i915_ttm_move runs under the object lock; it is cut where it can     *)
(* block on the migration request (between submitting the blit and arming  *)
(* the intercept, and in its dma_fence_wait calls), so that the request    *)
(* can complete at any point of the call.  The request's completion runs   *)
(* the fence callback; the worker and the irq work run on their own.       *)
(* bo->ttm is always there (TTM creates it before a move that involves     *)
(* system memory); its caching is ttm_cached; TTM_TT_FLAG_SWAPPED and the  *)
(* madvise purge are left out.                                             *)
(***************************************************************************)

MemTypes == {"system", "lmem"}

\* i915_ttm_cpu_maps_iomem / i915_ttm_gtt_binds_lmem: mem_type != I915_PL_SYSTEM
i915_ttm_cpu_maps_iomem(res) == res # "system"
i915_ttm_gtt_binds_lmem(res) == res # "system"

\* ttm_move_memcpy(clear, ...): what the destination holds afterwards.
ttm_move_memcpy(clear, src) == IF clear THEN "zero" ELSE src

\* The recorded placement of the object.
Placement(b) ==
    [resource |-> b.resource, region |-> b.region, mem_flags |-> b.mem_flags,
     domains |-> b.domains, cached_io_rsgt |-> b.cached_io_rsgt]

\* ttm_bo_move_sync_cleanup / ttm_bo_move_accel_cleanup: bo->resource = dst_mem
ttm_bo_assign_mem(b, dst) == [b EXCEPT !.resource = dst]

i915_ttm_adjust_domains_after_move(b) ==
    [b EXCEPT !.domains = IF i915_ttm_cpu_maps_iomem(b.resource)
                          THEN "WC" ELSE "CPU"]

\* i915_ttm_free_cached_io_rsgt, then the destination's table is cached when
\* the destination is io memory (tables are numbered 1 and 2).
MoveCachedIoRsgt(b, dst) ==
    [b EXCEPT !.cached_io_rsgt =
        IF i915_ttm_gtt_binds_lmem(dst) \/ i915_ttm_cpu_maps_iomem(dst)
        THEN (IF @ = 1 THEN 2 ELSE 1) ELSE NULL]

i915_ttm_adjust_gem_after_move(b) ==
    [b EXCEPT !.region = IF @ # b.resource /\ b.resource \in b.placements
                         THEN b.resource ELSE @,
              !.mem_flags = IF i915_ttm_cpu_maps_iomem(b.resource)
                            THEN "IOMEM" ELSE "STRUCT_PAGE"]

\* The tail of i915_ttm_move after the copy: cleanup and adjustments.
MoveCommit(b, dst) ==
    i915_ttm_adjust_gem_after_move(
        MoveCachedIoRsgt(
            i915_ttm_adjust_domains_after_move(ttm_bo_assign_mem(b, dst)), dst))

\* What i915_ttm_move records for the result err of __i915_ttm_move
\* (a variant that goes on to the cleanup whatever err is).
MoveRecordAlways(b, dst, err) == MoveCommit(b, dst)
\* What i915_ttm_move records for the result err of __i915_ttm_move.
MoveRecord(b, dst, err) == IF err # 0 THEN b ELSE MoveCommit(b, dst)

\* i915_ttm_memcpy_init: arg->clear (a variant that takes the clear forced on
\* the blit by fail_gpu_migration).
MemcpyInitClearForced(clear, failGpu) == clear \/ failGpu
\* i915_ttm_memcpy_init: arg->clear.
MemcpyInitClear(clear, failGpu) == clear

\* __memcpy_cb: what the callback queues (a variant that looks at the fence
\* error only).
MemcpyCbErrorOnly(error, failGpu) ==
    IF error THEN "queued_worker" ELSE "queued_irq"
\* __memcpy_cb: what the callback queues.
memcpy_cb(error, failGpu) ==
    IF error \/ failGpu THEN "queued_worker" ELSE "queued_irq"

\* __i915_ttm_move: whether it calls kzalloc for the copy_work (a variant that
\* always does).
WorkAllocTriedAlways(failWork) == TRUE
\* __i915_ttm_move: whether it calls kzalloc for the copy_work.
WorkAllocTried(failWork) == ~failWork

\* __i915_ttm_move: whether the error of a submitted blit is intercepted (a
\* variant that intercepts every one).
InterceptNeededAlways(dst, failGpu, failWork) == TRUE
\* __i915_ttm_move: whether the error of a submitted blit is intercepted, the
\* negation of the test before its first "goto out".
InterceptNeeded(dst, failGpu, failWork) ==
    i915_ttm_gtt_binds_lmem(dst) \/ failGpu \/ failWork

\* The error the intercept sees on the signaled migration fence (a variant
\* that always sees one).
InterceptErrorAlways(failGpu, error) == -EIO
\* The error the intercept sees on the signaled migration fence (a variant
\* that never sees one).
InterceptErrorIgnored(failGpu, error) == 0
\* The error the intercept sees on the signaled migration fence.
InterceptError(failGpu, error) ==
    IF failGpu THEN -EINVAL ELSE IF error THEN -EIO ELSE 0

MvIdle ==
    [pc |-> "idle", dst |-> "system", clear |-> FALSE, fault |-> "none",
     failGpu |-> FALSE, failWork |-> FALSE, src |-> "stale",
     pre |-> Placement(bo), submitted |-> FALSE, allocs |-> 0,
     fence |-> "none", ret |-> 0,
     cpuBy |-> "none", cpuClear |-> FALSE, cpuAfterGpu |-> FALSE,
     madv |-> "WILLNEED", preBound |-> FALSE, prePages |-> FALSE,
     purged |-> FALSE, dstFreed |-> FALSE,
     deps |-> FALSE, accelErr |-> 0, synced |-> FALSE, waited |-> FALSE,
     copy |-> FALSE, allowAccel |-> TRUE, why |-> "none",
     resvExcl |-> "none", resvShared |-> "none"]

GpuNone == [state |-> "none", kind |-> "copy", error |-> FALSE, cb |-> FALSE]
\* copy_work: no work; released, kfreed and puts count the calls of
\* i915_ttm_memcpy_release on its arg, of kfree(copy_work) and of
\* dma_fence_put(&copy_work->fence) by its callbacks.
WorkNone == [state |-> "none", clear |-> FALSE, signals |-> 0, by |-> "none",
             released |-> 0, kfreed |-> 0, puts |-> 0]

\* i915_ttm_memcpy_release (a variant that keeps the references).
MemcpyReleaseNone(n) == n
\* i915_ttm_memcpy_release on an arg released n times so far: the
\* scatter-list references taken by i915_ttm_memcpy_init are put.
MemcpyRelease(n) == n + 1

\* No call is running and nothing of an earlier move is still in flight.
Quiescent ==
    /\ mv.pc \in {"idle", "returned"}
    /\ gpu.state # "submitted"
    /\ copy_work.state \notin {"armed", "queued_worker", "queued_irq"}

\* What the object holds: after a successful move, the destination memory.
ObjContent ==
    IF mv.pc = "returned" /\ mv.ret = 0 /\ ~mv.copy THEN dstData ELSE content

FenceSignaled(f) ==
    CASE f = "none" -> TRUE
      [] f = "gpu" -> gpu.state = "signaled"
      [] f = "work" -> copy_work.state = "done"

\* The inputs of a call: the step that fails, if any; how the accelerated
\* submission goes; whether i915_deps_sync is interrupted.
MoveCalls ==
    [fault : {"none", "unbind", "put_pages", "populate", "get_st",
              "prev_deps"},
     accel : {"ok", "no_gt", "submit", "src_st"},
     intr : BOOLEAN]

\* The types of buffer object the move tells apart.
BoTypes == {"device", "kernel"}
AccelFaults == {"ok", "no_gt", "submit", "src_st"}

\* i915_ttm_accel_move up to the submission, for the given
\* fail_gpu_migration and bo->type: [err, kind, engine_get, engine_put], the
\* last two counting intel_engine_pm_get and intel_engine_pm_put.
AccelMove(clear, accel, failGpu, type) ==
    LET forced == clear \/ failGpu
        Out(err, kind, pm, why) == [err |-> err, kind |-> kind,
                                    engine_get |-> pm, engine_put |-> pm,
                                    why |-> why]
    IN IF accel = "no_gt" THEN Out(-EINVAL, "none", 0, "no_gt")
       ELSE IF forced /\ type = "kernel" /\ ~failGpu
            THEN Out(-EINVAL, "none", 0, "kernel_clear")
       ELSE IF ~forced /\ accel = "src_st" THEN Out(-ENOMEM, "none", 0, "src_st")
       ELSE IF accel = "submit" THEN Out(-ENOMEM, "none", 1, "submit")
       ELSE Out(0, IF forced THEN "clear" ELSE "copy", 1, "ok")

\* i915_ttm_accel_move up to the submission: [err, kind, engine_get,
\* engine_put].
i915_ttm_accel_move(clear, accel) ==
    AccelMove(clear, accel, fail_gpu_migration, bo.type)

\* i915_ttm_purge: the backing storage is thrown away.
i915_ttm_purge(b) == [b EXCEPT !.madv = "PURGED", !.pages = FALSE]

\* i915_ttm_move_notify on object b: [ret, bo]. i915_gem_object_unbind fails
\* (fault "unbind", a VMA stays bound) or removes every GPU binding; then
\* __i915_gem_object_put_pages fails (fault "put_pages", the pages are pinned
\* by someone else) or drops the pages (a variant that drops the pages even
\* when it fails).
MoveNotifyDropsPages(b, fault) ==
    IF fault = "unbind" /\ b.bound THEN [ret |-> -EAGAIN, bo |-> b]
    ELSE IF fault = "put_pages" /\ b.pages
    THEN [ret |-> -EBUSY, bo |-> [b EXCEPT !.bound = FALSE, !.pages = FALSE]]
    ELSE [ret |-> 0, bo |-> [b EXCEPT !.bound = FALSE, !.pages = FALSE]]
\* i915_ttm_move_notify on object b: [ret, bo].
i915_ttm_move_notify(b, fault) ==
    IF fault = "unbind" /\ b.bound THEN [ret |-> -EAGAIN, bo |-> b]
    ELSE IF fault = "put_pages" /\ b.pages
    THEN [ret |-> -EBUSY, bo |-> [b EXCEPT !.bound = FALSE]]
    ELSE [ret |-> 0, bo |-> [b EXCEPT !.bound = FALSE, !.pages = FALSE]]

\* i915_ttm_move: whether the object is discarded instead of moved (a variant
\* that discards purged objects only).
MadvDiscardsPurgedOnly(madv) == madv = "PURGED"
\* i915_ttm_move: whether the object is discarded instead of moved.
MadvDiscards(madv) == madv # "WILLNEED"

\* i915_deps_sync: its result when the wait is interrupted or not.
DepsSync(intr) == IF intr THEN -ERESTARTSYS ELSE 0

\* __i915_ttm_move when i915_ttm_accel_move returned the error pointer err
\* and i915_deps_sync returned syncErr: 0 stands for going on to the CPU copy
\* (a variant that hands err back once the dependencies are waited for).
AccelFailReturned(err, syncErr) == IF syncErr # 0 THEN syncErr ELSE err
\* __i915_ttm_move when i915_ttm_accel_move returned the error pointer err
\* and i915_deps_sync returned syncErr: 0 stands for going on to the CPU copy.
AccelFailResult(err, syncErr) == IF syncErr # 0 THEN syncErr ELSE 0

\* __i915_ttm_move: what it has after the accelerated attempt, a being the
\* result of i915_ttm_accel_move (a variant that attempts the blit whatever
\* allow_accel is).
AllowAccelIgnored(allow_accel, a) == a
\* __i915_ttm_move: what it has after the accelerated attempt, a being the
\* result of i915_ttm_accel_move: fence stays ERR_PTR(-EINVAL) when
\* allow_accel is false.
TtmMoveAccel(allow_accel, a) ==
    IF allow_accel THEN a
    ELSE [err |-> -EINVAL, kind |-> "none", engine_get |-> 0,
          engine_put |-> 0, why |-> "disallowed"]

\* i915_ttm_move returns ret.
MoveReturn(m, ret) == [m EXCEPT !.pc = "returned", !.ret = ret]

\* The CPU copy of __i915_ttm_move, run by the caller.
CallerCopies(m, clear) ==
    [m EXCEPT !.cpuBy = "caller", !.cpuClear = clear,
              !.cpuAfterGpu = (gpu.state = "signaled")]

\* i915_ttm_move from its entry to the submission of the blit, or to its
\* return when no blit is submitted.
MoveBegin(dst, c) ==
    LET src == ObjContent
        n == i915_ttm_move_notify(bo, c.fault)
        b0 == n.bo
        m0 == [MvIdle EXCEPT !.dst = dst, !.fault = c.fault,
                             !.failGpu = fail_gpu_migration,
                             !.failWork = fail_work_allocation, !.src = src,
                             !.madv = bo.madv, !.preBound = bo.bound,
                             !.prePages = bo.pages]
        populate == dst = "system"
        b1 == IF populate THEN [b0 EXCEPT !.populated = TRUE] ELSE b0
        clear == ~i915_ttm_cpu_maps_iomem(bo.resource) /\ ~b1.populated
        m1 == [m0 EXCEPT !.clear = clear]
        skip == clear /\ ~bo.zero_alloc
        a == TtmMoveAccel(TRUE, i915_ttm_accel_move(clear, c.accel))
        m2 == [m1 EXCEPT !.deps = TRUE, !.accelErr = a.err, !.why = a.why]
        r == AccelFailResult(a.err, DepsSync(c.intr))
        Plain == c.accel = "ok" /\ ~c.intr
        Ends(b, m, d) ==
            /\ bo' = b /\ mv' = m /\ dstData' = d
            /\ gpu' = GpuNone /\ copy_work' = WorkNone
    IN
    /\ Quiescent
    /\ dst # bo.resource
    /\ content' = src
    /\ CASE c.fault = "unbind" ->
               Plain /\ n.ret # 0 /\ Ends(b0, MoveReturn(m0, n.ret), "stale")
         [] c.fault = "put_pages" ->
               Plain /\ n.ret # 0 /\ Ends(b0, MoveReturn(m0, n.ret), "stale")
         [] c.fault \notin {"unbind", "put_pages"} /\ MadvDiscards(bo.madv) ->
               /\ Plain /\ c.fault = "none"
               /\ Ends(i915_ttm_purge(b0),
                       MoveReturn([m0 EXCEPT !.purged = TRUE,
                                             !.dstFreed = TRUE], 0),
                       "stale")
         [] c.fault = "populate" /\ ~MadvDiscards(bo.madv) ->
               Plain /\ populate /\ Ends(b0, MoveReturn(m0, -ENOMEM), "stale")
         [] c.fault = "get_st" /\ ~MadvDiscards(bo.madv) ->
               Plain /\ Ends(b1, MoveReturn(m0, -ENOMEM), "stale")
         [] c.fault = "prev_deps" /\ ~MadvDiscards(bo.madv) ->
               /\ Plain /\ ~skip
               /\ Ends(b1, MoveReturn([m1 EXCEPT !.deps = TRUE], -ENOMEM),
                       "stale")
         [] OTHER ->
               IF skip
               THEN Plain /\ Ends(MoveRecord(b1, dst, 0), MoveReturn(m1, 0), "stale")
               ELSE IF a.err = 0
               THEN /\ ~c.intr
                    /\ bo' = b1
                    /\ mv' = [m2 EXCEPT !.pc = "submitted", !.submitted = TRUE]
                    /\ dstData' = "stale"
                    /\ gpu' = [state |-> "submitted", kind |-> a.kind,
                               error |-> FALSE, cb |-> FALSE]
                    /\ copy_work' = WorkNone
               ELSE IF r # 0
               THEN Ends(MoveRecord(b1, dst, r),
                         MoveReturn([m2 EXCEPT !.synced = TRUE], r), "stale")
               ELSE LET argClear == MemcpyInitClear(clear, fail_gpu_migration)
                    IN Ends(MoveRecord(b1, dst, 0),
                            MoveReturn(CallerCopies([m2 EXCEPT !.synced = TRUE],
                                                    argClear), 0),
                            ttm_move_memcpy(argClear, src))
    /\ UNCHANGED <<fail_gpu_migration, fail_work_allocation, instVars, vmaVars, colorVars, auxVars>>

\* The inputs of a call of i915_gem_obj_copy_ttm.
CopyCalls ==
    [fault : {"none", "reserve_shared", "add_resv"},
     accel : AccelFaults,
     intr : BOOLEAN]

\* i915_gem_obj_copy_ttm from its entry to the submission of the blit, or to
\* its return when no blit is submitted: the object is the source, dst the
\* placement of the destination object.
CopyBegin(dst, allow_accel, c) ==
    LET src == ObjContent
        m0 == [MvIdle EXCEPT !.dst = dst, !.fault = c.fault,
                             !.failGpu = fail_gpu_migration,
                             !.failWork = fail_work_allocation, !.src = src,
                             !.pre = Placement(bo),
                             !.copy = TRUE, !.allowAccel = allow_accel]
        a == TtmMoveAccel(allow_accel, i915_ttm_accel_move(FALSE, c.accel))
        m2 == [m0 EXCEPT !.deps = TRUE, !.accelErr = a.err, !.why = a.why]
        r == AccelFailResult(a.err, DepsSync(c.intr))
        Plain == c.accel = "ok" /\ ~c.intr
        Ends(m, d) ==
            /\ mv' = m /\ dstData' = d
            /\ gpu' = GpuNone /\ copy_work' = WorkNone
    IN
    /\ Quiescent
    /\ bo.madv # "PURGED"
    /\ allow_accel \/ c.accel = "ok"
    /\ content' = src
    /\ bo' = bo
    /\ IF c.fault # "none"
       THEN Plain /\ allow_accel /\ Ends(MoveReturn(m0, -ENOMEM), "stale")
       ELSE IF a.err = 0
       THEN /\ ~c.intr
            /\ mv' = [m2 EXCEPT !.pc = "submitted", !.submitted = TRUE]
            /\ dstData' = "stale"
            /\ gpu' = [state |-> "submitted", kind |-> a.kind,
                       error |-> FALSE, cb |-> FALSE]
            /\ copy_work' = WorkNone
       ELSE IF r # 0
       THEN Ends(MoveReturn([m2 EXCEPT !.synced = TRUE], r), "stale")
       ELSE LET argClear == MemcpyInitClear(FALSE, fail_gpu_migration)
            IN Ends(MoveReturn(CallerCopies([m2 EXCEPT !.synced = TRUE],
                                            argClear), 0),
                    ttm_move_memcpy(argClear, src))
    /\ UNCHANGED <<fail_gpu_migration, fail_work_allocation, instVars, vmaVars,
                   colorVars, auxVars>>

\* i915_gem_obj_copy_ttm: the fence it adds to the reservation objects (a
\* variant that adds none).
CopyResvFenceDropped(fence) == "none"
\* i915_gem_obj_copy_ttm: the fence it adds to the reservation objects of
\* the destination and of the source for what __i915_ttm_move returned;
\* "none" is NULL, after which it returns without adding.
CopyResvFence(fence) == fence

\* The tail of i915_ttm_move with the fence __i915_ttm_move returned:
\* ttm_bo_move_accel_cleanup, and when that fails a wait for the fence. For
\* i915_gem_obj_copy_ttm: a fence is added as the exclusive fence of the
\* destination and as a shared fence of the source.
MoveFinish(m, fence, cleanupFail) ==
    IF m.copy
    THEN /\ ~cleanupFail
         /\ mv' = MoveReturn([m EXCEPT !.fence = fence,
                                       !.resvExcl = CopyResvFence(fence),
                                       !.resvShared = CopyResvFence(fence)], 0)
         /\ bo' = bo
    ELSE IF fence # "none" /\ cleanupFail
    THEN /\ mv' = [m EXCEPT !.pc = "wait_cleanup", !.fence = fence]
         /\ bo' = bo
    ELSE /\ mv' = MoveReturn([m EXCEPT !.fence = fence], 0)
         /\ bo' = MoveRecord(bo, mv.dst, 0)

\* __i915_ttm_move after the blit was submitted: the error intercept.
MoveArm(allocFail, cleanupFail) ==
    /\ mv.pc = "submitted"
    /\ IF ~InterceptNeeded(mv.dst, fail_gpu_migration, fail_work_allocation)
       THEN /\ ~allocFail
            /\ MoveFinish(mv, "gpu", cleanupFail)
            /\ UNCHANGED <<dstData, gpu, copy_work>>
       ELSE IF WorkAllocTried(fail_work_allocation) /\ ~allocFail
       THEN LET argClear == MemcpyInitClear(mv.clear, fail_gpu_migration)
                m == [mv EXCEPT !.allocs = @ + 1]
                err == InterceptError(fail_gpu_migration, gpu.error)
            IN IF gpu.state = "signaled"
               THEN /\ ~cleanupFail
                    /\ gpu' = gpu
                    /\ copy_work' = [WorkNone EXCEPT
                                       !.state = "freed", !.clear = argClear,
                                       !.released = MemcpyRelease(@),
                                       !.kfreed = @ + 1]
                    /\ IF err = 0
                       THEN MoveFinish(m, "none", FALSE) /\ dstData' = dstData
                       ELSE /\ MoveFinish(CallerCopies(m, argClear), "none", FALSE)
                            /\ dstData' = ttm_move_memcpy(argClear, mv.src)
               ELSE /\ gpu' = [gpu EXCEPT !.cb = TRUE]
                    /\ copy_work' = [WorkNone EXCEPT !.state = "armed",
                                                  !.clear = argClear]
                    /\ dstData' = dstData
                    /\ MoveFinish(m, "work", cleanupFail)
       ELSE /\ ~cleanupFail
            /\ allocFail = WorkAllocTried(fail_work_allocation)
            /\ mv' = [mv EXCEPT !.pc = "wait_gpu", !.waited = TRUE]
            /\ UNCHANGED <<bo, dstData, gpu, copy_work>>
    /\ UNCHANGED <<fail_gpu_migration, fail_work_allocation, content, instVars,
                   vmaVars, colorVars, auxVars>>

\* __i915_ttm_move without a copy_work, once dma_fence_wait(dep) returns.
MoveAfterWait ==
    /\ mv.pc = "wait_gpu"
    /\ gpu.state = "signaled"
    /\ IF InterceptError(fail_gpu_migration, gpu.error) = 0
       THEN MoveFinish(mv, "none", FALSE) /\ dstData' = dstData
       ELSE LET argClear == MemcpyInitClear(mv.clear, fail_gpu_migration)
            IN /\ MoveFinish(CallerCopies(mv, argClear), "none", FALSE)
               /\ dstData' = ttm_move_memcpy(argClear, mv.src)
    /\ UNCHANGED <<fail_gpu_migration, fail_work_allocation, content, gpu,
                   copy_work, instVars, vmaVars, colorVars, auxVars>>

\* i915_ttm_move after ttm_bo_move_accel_cleanup failed, once
\* dma_fence_wait(migration_fence) returns: ttm_bo_move_sync_cleanup.
MoveCleanupWait ==
    /\ mv.pc = "wait_cleanup"
    /\ FenceSignaled(mv.fence)
    /\ mv' = MoveReturn(mv, 0)
    /\ bo' = MoveRecord(bo, mv.dst, 0)
    /\ UNCHANGED <<fail_gpu_migration, fail_work_allocation, content, dstData,
                   gpu, copy_work, instVars, vmaVars, colorVars, auxVars>>

\* The migration request completes, with or without an error, and its fence
\* signals: an armed callback (__memcpy_cb) runs.
GpuCompletes(error) ==
    /\ gpu.state = "submitted"
    /\ dstData' = IF error THEN "stale"
                  ELSE IF gpu.kind = "clear" THEN "zero" ELSE mv.src
    /\ gpu' = [gpu EXCEPT !.state = "signaled", !.error = error]
    /\ copy_work' = IF gpu.cb
                    THEN [copy_work EXCEPT
                            !.state = memcpy_cb(error, fail_gpu_migration)]
                    ELSE copy_work
    /\ UNCHANGED <<fail_gpu_migration, fail_work_allocation, bo, content, mv,
                   instVars, vmaVars, colorVars, auxVars>>

\* dma_fence_signal(&copy_work->fence) on a fence signaled n times so far (a
\* variant that loses the signal).
FenceSignalLost(n) == n
\* dma_fence_signal(&copy_work->fence) on a fence signaled n times so far.
FenceSignal(n) == n + 1

\* __memcpy_irq_work: whether it calls i915_ttm_move_memcpy (a variant that
\* does).
IrqWorkCopiesToo == TRUE
\* __memcpy_irq_work: whether it calls i915_ttm_move_memcpy.
IrqWorkCopies == FALSE

\* __memcpy_work on system_unbound_wq
MemcpyWork ==
    /\ copy_work.state = "queued_worker"
    /\ dstData' = ttm_move_memcpy(copy_work.clear, mv.src)
    /\ mv' = [mv EXCEPT !.cpuBy = "worker", !.cpuClear = copy_work.clear,
                        !.cpuAfterGpu = (gpu.state = "signaled")]
    /\ copy_work' = [copy_work EXCEPT !.state = "done",
                                      !.signals = FenceSignal(@),
                                      !.by = "worker",
                                      !.released = MemcpyRelease(@),
                                      !.puts = @ + 1]
    /\ UNCHANGED <<fail_gpu_migration, fail_work_allocation, bo, content, gpu,
                   instVars, vmaVars, colorVars, auxVars>>

\* __memcpy_irq_work
MemcpyIrqWork ==
    /\ copy_work.state = "queued_irq"
    /\ IF IrqWorkCopies
       THEN /\ dstData' = ttm_move_memcpy(copy_work.clear, mv.src)
            /\ mv' = [mv EXCEPT !.cpuBy = "irq_work",
                                !.cpuClear = copy_work.clear,
                                !.cpuAfterGpu = (gpu.state = "signaled")]
       ELSE UNCHANGED <<dstData, mv>>
    /\ copy_work' = [copy_work EXCEPT !.state = "done",
                                      !.signals = FenceSignal(@),
                                      !.by = "irq_work",
                                      !.released = MemcpyRelease(@),
                                      !.puts = @ + 1]
    /\ UNCHANGED <<fail_gpu_migration, fail_work_allocation, bo, content,
                   gpu, instVars, vmaVars, colorVars, auxVars>>

\* i915_ttm_migrate_set_failure_modes, called by the selftests between moves.
SetFailureModes(gpu_migration, work_allocation) ==
    /\ Quiescent
    /\ fail_gpu_migration' = gpu_migration
    /\ fail_work_allocation' = work_allocation
    /\ UNCHANGED <<bo, content, dstData, mv, gpu, copy_work, instVars, vmaVars, colorVars, auxVars>>

\* The CPU fills the object through its mapping (system pages get populated).
UserWrites ==
    /\ Quiescent
    /\ ObjContent # "user"
    /\ content' = "user"
    /\ bo' = IF bo.resource = "system" THEN [bo EXCEPT !.populated = TRUE] ELSE bo
    /\ mv' = [MvIdle EXCEPT !.pre = Placement(bo)]
    /\ gpu' = GpuNone
    /\ copy_work' = WorkNone
    /\ UNCHANGED <<fail_gpu_migration, fail_work_allocation, dstData, instVars,
                   vmaVars, colorVars, auxVars>>

\* The object is used by the GPU between moves: its pages are taken and,
\* when bind is set, a VMA of it is bound. A purged object has no pages.
ObjectUse(bind) ==
    /\ Quiescent
    /\ bo.madv # "PURGED"
    /\ IF bind THEN ~bo.bound ELSE ~bo.pages
    /\ bo' = [bo EXCEPT !.pages = TRUE, !.bound = @ \/ bind]
    /\ content' = ObjContent
    /\ mv' = [MvIdle EXCEPT !.pre = Placement(bo)]
    /\ gpu' = GpuNone
    /\ copy_work' = WorkNone
    /\ UNCHANGED <<fail_gpu_migration, fail_work_allocation, dstData, instVars,
                   vmaVars, colorVars, auxVars>>

\* Userspace marks the object's backing storage as needed or not.
ObjectMadvise(madv) ==
    /\ Quiescent
    /\ bo.madv \notin {"PURGED", madv}
    /\ bo' = [bo EXCEPT !.madv = madv]
    /\ content' = ObjContent
    /\ mv' = [MvIdle EXCEPT !.pre = Placement(bo)]
    /\ gpu' = GpuNone
    /\ copy_work' = WorkNone
    /\ UNCHANGED <<fail_gpu_migration, fail_work_allocation, dstData, instVars,
                   vmaVars, colorVars, auxVars>>

\* A new object: in system memory, no pages yet.
BoFresh(type, zero_alloc, placements) ==
    [type |-> type, zero_alloc |-> zero_alloc, placements |-> placements,
     populated |-> FALSE, resource |-> "system", region |-> "system",
     mem_flags |-> "STRUCT_PAGE", domains |-> "CPU", cached_io_rsgt |-> NULL,
     madv |-> "WILLNEED", bound |-> FALSE, pages |-> FALSE]

MoveInit ==
    /\ fail_gpu_migration = FALSE
    /\ fail_work_allocation = FALSE
    /\ \E type \in {"device", "kernel"}, zero_alloc \in BOOLEAN,
          placements \in {{"lmem"}, MemTypes} :
          bo = BoFresh(type, zero_alloc, placements)
    /\ content = "stale"
    /\ dstData = "stale"
    /\ mv = MvIdle
    /\ gpu = GpuNone
    /\ copy_work = WorkNone

\* The buffer object while the other specifications run.
MoveQuiet ==
    /\ fail_gpu_migration = FALSE
    /\ fail_work_allocation = FALSE
    /\ bo = BoFresh("device", TRUE, MemTypes)
    /\ content = "stale"
    /\ dstData = "stale"
    /\ mv = MvIdle
    /\ gpu = GpuNone
    /\ copy_work = WorkNone

NextMove ==
    \/ \E dst \in MemTypes, c \in MoveCalls : MoveBegin(dst, c)
    \/ \E allocFail \in BOOLEAN, cleanupFail \in BOOLEAN :
          MoveArm(allocFail, cleanupFail)
    \/ MoveAfterWait
    \/ MoveCleanupWait
    \/ \E error \in BOOLEAN : GpuCompletes(error)
    \/ MemcpyWork
    \/ MemcpyIrqWork
    \/ \E g \in BOOLEAN, w \in BOOLEAN : SetFailureModes(g, w)
    \/ UserWrites
    \/ \E bind \in BOOLEAN : ObjectUse(bind)
    \/ \E madv \in {"WILLNEED", "DONTNEED"} : ObjectMadvise(madv)

\* Moves and copies (i915_gem_obj_copy_ttm) of an object that stays unbound
\* and WILLNEED.
NextCopy ==
    \/ \E dst \in MemTypes, c \in MoveCalls : MoveBegin(dst, c)
    \/ \E dst \in MemTypes, allow_accel \in BOOLEAN, c \in CopyCalls :
          CopyBegin(dst, allow_accel, c)
    \/ \E allocFail \in BOOLEAN, cleanupFail \in BOOLEAN :
          MoveArm(allocFail, cleanupFail)
    \/ MoveAfterWait
    \/ MoveCleanupWait
    \/ \E error \in BOOLEAN : GpuCompletes(error)
    \/ MemcpyWork
    \/ MemcpyIrqWork
    \/ \E g \in BOOLEAN, w \in BOOLEAN : SetFailureModes(g, w)
    \/ UserWrites

(***************************************************************************)
(* SpecColor: cache coloring of the address space.                         *)
(*                                                                         *)
(* i915_vma_insert hands the object's cache level to the allocator as the  *)
(* node's color when the address space has cache coloring, and asserts     *)
(* i915_gem_valid_gtt_space on the node it got.  The allocator (drm_mm     *)
(* with its color_adjust callback, and eviction) is modelled as the        *)
(* AddressSpace of the specification describes it: it places a node only   *)
(* where it overlaps nothing and, with coloring, touches no node of        *)
(* another color, evicting what is in the way when it may.                 *)
(***************************************************************************)

NColorVma == 3         \* VMAs competing for the address space
ColorTotal == 5        \* vm->total, in pages

ColorVmas == 1 .. NColorVma

\* obj->cache_level of the object behind each VMA.
ObjCacheLevel(v) == 1 + (v % 2)
CacheLevels == 0 .. 2

\* vma->size, in pages.
ColorVmaSize(v) == IF v = 3 THEN 2 ELSE 1

ColorNoNode == [allocated |-> FALSE, start |-> 0, size |-> 0, color |-> 0]

\* drm_mm.head_node: unallocated, its end is the start of the range.
MmHead == [allocated |-> FALSE, start |-> ColorTotal, size |-> 0 - ColorTotal,
           color |-> 0]

MmEnd(n) == n.start + n.size

MmAllocated(ns) == {u \in DOMAIN ns : ns[u].allocated}

\* The neighbours of node n on drm_mm's address-ordered node_list; the list
\* is circular through the head node.
list_prev_entry(ns, n) ==
    LET below == {u \in MmAllocated(ns) : ns[u].start < n.start}
    IN  IF below = {} THEN MmHead
        ELSE ns[CHOOSE u \in below : \A w \in below : ns[w].start <= ns[u].start]

list_next_entry(ns, n) ==
    LET above == {u \in MmAllocated(ns) : ns[u].start > n.start}
    IN  IF above = {} THEN MmHead
        ELSE ns[CHOOSE u \in above : \A w \in above : ns[w].start >= ns[u].start]

\* drm_mm_hole_follows(n): free space between the end of n and the next node
\* (or the end of the range).
drm_mm_hole_follows(ns, n) ==
    LET after == {ns[u].start : u \in {w \in MmAllocated(ns) : ns[w].start >= MmEnd(n)}}
                    \cup {ColorTotal}
    IN  \A s \in after : s > MmEnd(n)

i915_node_color_differs(n, color) == n.allocated /\ n.color # color

\* A mutation of i915_gem_valid_gtt_space that looks for the hole after the
\* next neighbour instead of after the node.
ValidGttSpaceNextHole(ns, v, color) ==
    IF ~color_adjust THEN TRUE
    ELSE IF /\ i915_node_color_differs(list_prev_entry(ns, ns[v]), color)
            /\ ~drm_mm_hole_follows(ns, list_prev_entry(ns, ns[v]))
         THEN FALSE
    ELSE IF /\ i915_node_color_differs(list_next_entry(ns, ns[v]), color)
            /\ ~drm_mm_hole_follows(ns, list_next_entry(ns, ns[v]))
         THEN FALSE
    ELSE TRUE

i915_gem_valid_gtt_space(ns, v, color) ==
    IF ~color_adjust THEN TRUE
    ELSE IF /\ i915_node_color_differs(list_prev_entry(ns, ns[v]), color)
            /\ ~drm_mm_hole_follows(ns, list_prev_entry(ns, ns[v]))
         THEN FALSE
    ELSE IF /\ i915_node_color_differs(list_next_entry(ns, ns[v]), color)
            /\ ~drm_mm_hole_follows(ns, ns[v])
         THEN FALSE
    ELSE TRUE

\* i915_vma_insert: the color it asks the allocator for.
InsertColor(v) == IF color_adjust THEN ObjCacheLevel(v) ELSE 0

\* The nodes that keep a node of this color out of [start, start + size):
\* those it would overlap and, with coloring, those of another color it
\* would touch.
MmConflicts(ns, start, size, color) ==
    {u \in MmAllocated(ns) :
        \/ (ns[u].start < start + size /\ start < MmEnd(ns[u]))
        \/ /\ color_adjust
           /\ ns[u].color # color
           /\ (MmEnd(ns[u]) = start \/ start + size = ns[u].start)}

\* i915_vma_insert, as far as the allocator is concerned: the outcomes of an
\* insert of VMA v at offset (the fixed offset of the caller or the one the
\* search settles on), evicting or not.  [ret, ns, color].
ColorVmaInsert(v, offset, evict) ==
    LET color == InsertColor(v)
        size == ColorVmaSize(v)
        inWay == MmConflicts(mmNodes, offset, size, color)
        placed == [u \in ColorVmas |->
                     IF u = v THEN [allocated |-> TRUE, start |-> offset,
                                    size |-> size, color |-> color]
                     ELSE IF u \in inWay THEN ColorNoNode
                     ELSE mmNodes[u]]
    IN  IF size > ColorTotal THEN [ret |-> -ENOSPC, ns |-> mmNodes, color |-> color]
        ELSE IF offset + size > ColorTotal
             THEN [ret |-> -EINVAL, ns |-> mmNodes, color |-> color]
        ELSE IF inWay # {} /\ ~evict
             THEN [ret |-> -ENOSPC, ns |-> mmNodes, color |-> color]
        ELSE [ret |-> 0, ns |-> placed, color |-> color]

ColorOffsets == 0 .. (ColorTotal - 1)

ColorInsert(v, offset, evict) ==
    /\ ~mmNodes[v].allocated
    /\ mmNodes' = ColorVmaInsert(v, offset, evict).ns
    /\ UNCHANGED <<color_adjust, instVars, vmaVars, moveVars, auxVars>>

\* i915_vma_detach: drm_mm_remove_node.
ColorRemove(v) ==
    /\ mmNodes[v].allocated
    /\ mmNodes' = [mmNodes EXCEPT ![v] = ColorNoNode]
    /\ UNCHANGED <<color_adjust, instVars, vmaVars, moveVars, auxVars>>

ColorInit ==
    /\ color_adjust \in BOOLEAN
    /\ mmNodes = [v \in ColorVmas |-> ColorNoNode]

ColorQuiet ==
    /\ color_adjust = FALSE
    /\ mmNodes = [v \in ColorVmas |-> ColorNoNode]

NextColor ==
    \/ \E v \in ColorVmas, offset \in ColorOffsets, evict \in BOOLEAN :
          ColorInsert(v, offset, evict)
    \/ \E v \in ColorVmas : ColorRemove(v)

(***************************************************************************)
(*        The pin count of one VMA under lock-free and locked pins         *)
(*                                                                         *)
(* vma->flags is one atomic word: the pin count in its low bits            *)
(* (I915_VMA_PIN_MASK), the bind and error bits above.  pinw.flags is that *)
(* word; the bits above the pin field are HighBits: 1 for a bind bit the   *)
(* pinners ask for, 2 for I915_VMA_ERROR.                                  *)
(***************************************************************************)

PinField(flags) == flags % (I915_VMA_PIN_MASK + 1)
HighBits(flags) == flags \div (I915_VMA_PIN_MASK + 1)
PinWordError(flags) == (HighBits(flags) \div 2) % 2 = 1

PinIdle == [flags |-> I915_VMA_PIN_MASK + 1, pc |-> "idle", qad |-> "none",
            ret |-> 1]

\* try_qad_pin on a VMA that has the bind bits asked for.  The loop leaves
\* through a return or through the atomic_try_cmpxchg that succeeds, whose
\* tests were made on the value the word then has; an iteration that loses
\* the exchange changes nothing but the local.
QadPin ==
    /\ IF PinOverflowBit(PinField(pinw.flags)) \/ PinWordError(pinw.flags)
       THEN pinw' = [pinw EXCEPT !.qad = "false"]
       ELSE pinw' = [pinw EXCEPT !.qad = "true", !.flags = @ + 1]
    /\ UNCHANGED <<instVars, vmaVars, moveVars, colorVars, gtc, bs, lateVars>>

\* i915_vma_pin_ww after try_qad_pin failed, under vm->mutex: the tests of
\* I915_VMA_ERROR and of the pin field on the word it reads.
PinSlowCheck ==
    /\ pinw.pc = "idle"
    /\ pinw' = IF PinWordError(pinw.flags) THEN [pinw EXCEPT !.ret = -ENOMEM]
               ELSE IF PinWouldWrap(PinField(pinw.flags))
                    THEN [pinw EXCEPT !.ret = -EAGAIN]
               ELSE [pinw EXCEPT !.pc = "checked"]
    /\ UNCHANGED <<instVars, vmaVars, moveVars, colorVars, gtc, bs, lateVars>>

\* i915_vma_pin_ww, still under vm->mutex: __i915_vma_pin (atomic_inc) and
\* the unlock.
PinSlowPin ==
    /\ pinw.pc = "checked"
    /\ pinw' = [pinw EXCEPT !.pc = "idle", !.ret = 0, !.flags = @ + 1]
    /\ UNCHANGED <<instVars, vmaVars, moveVars, colorVars, gtc, bs, lateVars>>

\* i915_vma_unpin by a holder of a pin.
PinUnpin ==
    /\ PinField(pinw.flags) > 0
    /\ pinw' = [pinw EXCEPT !.flags = @ - 1]
    /\ UNCHANGED <<instVars, vmaVars, moveVars, colorVars, gtc, bs, lateVars>>

PinInit == pinw \in {PinIdle, [PinIdle EXCEPT !.flags = 3 * (I915_VMA_PIN_MASK + 1)]}

PinQuiet == pinw = PinIdle

NextPin == QadPin \/ PinSlowCheck \/ PinSlowPin \/ PinUnpin

(***************************************************************************)
(*           The closed list of a GT: i915_vma_close, i915_vma_parked      *)
(*                                                                         *)
(* gtc[v] is one VMA: [ggtt, open_count, list, refs, active, dying].       *)
(* list is where vma->closed_link is: "none" (an empty link), "gt"         *)
(* (gt->closed_vma) or "local" (the list on i915_vma_parked's stack).      *)
(* refs is vma->ref: one reference from vma_create and one while           *)
(* vma->active is in use; the VMA is freed when it drops to zero.  dying:  *)
(* the refcount of the VMA's object has reached zero.                      *)
(***************************************************************************)

NCloseVma == 3         \* VMAs of the GT, the first one a GGTT VMA
MaxOpen == 2           \* handles that may hold one VMA open

CloseVmas == 1..NCloseVma

CloseFresh(v) ==
    [ggtt |-> v = 1, open_count |-> 0, list |-> "none", refs |-> 1,
     active |-> FALSE, dying |-> FALSE]

CloseAlive(x) == x.refs > 0

\* Whether i915_vma_parked is between its two loops or inside the second.
ParkedRunning == \E v \in CloseVmas : gtc[v].list = "local"

\* atomic_dec_and_lock_irqsave (a variant that takes the lock whatever the
\* count becomes).
DecAndLockAlways(n) == TRUE
\* atomic_dec_and_lock_irqsave on a count of n: whether it reached zero.
DecAndLock(n) == n - 1 = 0

\* i915_vma_close
i915_vma_close(x) ==
    IF x.ggtt THEN x
    ELSE IF DecAndLock(x.open_count)
         THEN [x EXCEPT !.open_count = @ - 1, !.list = "gt"]
         ELSE [x EXCEPT !.open_count = @ - 1]

\* i915_vma_reopen
i915_vma_reopen(x) ==
    IF x.list # "none" THEN [x EXCEPT !.list = "none"] ELSE x

\* __i915_vma_put, and i915_vma_release when it was the last reference.
i915_vma_put(x) ==
    IF x.refs = 1 THEN [x EXCEPT !.refs = 0, !.list = "none"]
    ELSE [x EXCEPT !.refs = @ - 1]

\* A handle opens the VMA: the open count goes up and the opener that finds
\* it zero calls i915_vma_reopen.  No VMA is reopened while i915_vma_parked
\* destroys it (the GT is held idle).
CloseOpen(v) ==
    LET x == gtc[v]
        y == [x EXCEPT !.open_count = @ + 1]
    IN /\ CloseAlive(x) /\ ~x.dying /\ ~x.ggtt
       /\ x.list # "local"
       /\ x.open_count < MaxOpen
       /\ gtc' = [gtc EXCEPT ![v] = IF x.open_count = 0 THEN i915_vma_reopen(y)
                                    ELSE y]
       /\ UNCHANGED <<instVars, vmaVars, moveVars, colorVars, pinw, bs, lateVars>>

\* i915_vma_close by a holder of the VMA (of any VMA, for a GGTT VMA).
CloseClose(v) ==
    /\ CloseAlive(gtc[v])
    /\ gtc[v].ggtt \/ gtc[v].open_count > 0
    /\ gtc' = [gtc EXCEPT ![v] = i915_vma_close(@)]
    /\ UNCHANGED <<instVars, vmaVars, moveVars, colorVars, pinw, bs, lateVars>>

\* __i915_vma_active / __i915_vma_retire: the GPU starts and stops using the
\* VMA; it does not start while the GT is parked.
CloseActivate(v) ==
    /\ CloseAlive(gtc[v]) /\ ~gtc[v].active /\ ~gtc[v].dying
    /\ ~ParkedRunning
    /\ gtc' = [gtc EXCEPT ![v].active = TRUE, ![v].refs = @ + 1]
    /\ UNCHANGED <<instVars, vmaVars, moveVars, colorVars, pinw, bs, lateVars>>

CloseRetire(v) ==
    /\ gtc[v].active
    /\ gtc' = [gtc EXCEPT ![v] = i915_vma_put([@ EXCEPT !.active = FALSE])]
    /\ UNCHANGED <<instVars, vmaVars, moveVars, colorVars, pinw, bs, lateVars>>

\* The last reference to the VMA's object goes (no handle holds the VMA open
\* and i915_vma_parked does not hold the object), then the object is freed
\* and its VMA released with it.
ObjectDies(v) ==
    /\ CloseAlive(gtc[v]) /\ ~gtc[v].dying /\ ~gtc[v].active
    /\ gtc[v].open_count = 0 /\ gtc[v].list # "local"
    /\ gtc' = [gtc EXCEPT ![v].dying = TRUE]
    /\ UNCHANGED <<instVars, vmaVars, moveVars, colorVars, pinw, bs, lateVars>>

ObjectFreed(v) ==
    /\ CloseAlive(gtc[v]) /\ gtc[v].dying
    /\ gtc' = [gtc EXCEPT ![v] = i915_vma_put(@)]
    /\ UNCHANGED <<instVars, vmaVars, moveVars, colorVars, pinw, bs, lateVars>>

\* i915_vma_parked, first loop, under gt->closed_lock: every VMA of
\* gt->closed_vma whose object can still be referenced and whose vm can be
\* opened (those not in skip) moves to the local list; the others stay.  The
\* GT is idle: no VMA is active.
ParkedCollect(skip) ==
    /\ ~ParkedRunning
    /\ \A v \in CloseVmas : ~gtc[v].active
    /\ \E v \in CloseVmas : gtc[v].list = "gt"
    /\ gtc' = [v \in CloseVmas |->
                 IF gtc[v].list = "gt" /\ ~gtc[v].dying /\ v \notin skip
                 THEN [gtc[v] EXCEPT !.list = "local"] ELSE gtc[v]]
    /\ UNCHANGED <<instVars, vmaVars, moveVars, colorVars, pinw, bs, lateVars>>

\* i915_vma_parked, second loop, one entry of the local list: with the
\* object's lock the link is emptied and the VMA put, else the VMA goes back
\* to gt->closed_vma.
ParkedReap(v, trylock) ==
    /\ gtc[v].list = "local"
    /\ gtc' = [gtc EXCEPT ![v] = IF trylock
                                 THEN i915_vma_put([@ EXCEPT !.list = "none"])
                                 ELSE [@ EXCEPT !.list = "gt"]]
    /\ UNCHANGED <<instVars, vmaVars, moveVars, colorVars, pinw, bs, lateVars>>

CloseInit == gtc = [v \in CloseVmas |-> CloseFresh(v)]

CloseQuiet == gtc = <<>>

NextClose ==
    \/ \E v \in CloseVmas : CloseOpen(v)
    \/ \E v \in CloseVmas : CloseClose(v)
    \/ \E v \in CloseVmas : CloseActivate(v)
    \/ \E v \in CloseVmas : CloseRetire(v)
    \/ \E v \in CloseVmas : ObjectDies(v)
    \/ \E v \in CloseVmas : ObjectFreed(v)
    \/ \E skip \in SUBSET CloseVmas : ParkedCollect(skip)
    \/ \E v \in CloseVmas, trylock \in BOOLEAN : ParkedReap(v, trylock)

(***************************************************************************)
(*        One pin of an unbound VMA, in the order of its steps             *)
(*                                                                         *)
(* bs follows i915_vma_pin_ww past try_qad_pin on a VMA without bind bits: *)
(* the binding work and its chain, i915_vma_insert, the dependency on the  *)
(* asynchronous unbinds of the node's range, the page-table programming    *)
(* inline or by the work.  moving is the object's moving fence, prev the   *)
(* exclusive fence of vma->active, unbinds[r] the vma_resource still being *)
(* unbound in range r of the address space: "none", "pending", "signaled"  *)
(* (and "error" for moving).  werr is the error of the work's fence,       *)
(* binds the number of ops->bind_vma calls made.                           *)
(***************************************************************************)

NBindRange == 2        \* places of the address space a node can be put at

BindRanges == 1..NBindRange

BindIdle ==
    [pc |-> "idle", async |-> FALSE, moving |-> "none", prev |-> "none",
     unbinds |-> [r \in BindRanges |-> "none"],
     work |-> "none", took |-> FALSE, awaitMoving |-> FALSE,
     awaitPrev |-> FALSE, awaitUnbinds |-> {},
     node |-> 0, bound |-> FALSE, pte |-> "none", ret |-> 0, why |-> "none",
     werr |-> 0, binds |-> 0]

\* i915_vma_bind: work && bind_flags & vma->vm->bind_async_flags
BindAsyncPath(b) == b.work # "none" /\ b.async

\* dma_fence_work_chain (a variant that chains nothing).
WorkChainNothing(took) == FALSE
\* dma_fence_work_chain(&work->base, moving): whether the work now awaits the
\* moving fence.
WorkChain(took) == took

\* i915_vma_resource_bind_dep_await (a variant that awaits nothing).
BindDepAwaitNothing(unbinds, r) == {}
\* i915_vma_resource_bind_dep_await on the node's range r: the ranges whose
\* pending unbind the work's chain now awaits.
BindDepAwait(unbinds, r) == IF unbinds[r] = "pending" THEN {r} ELSE {}

\* The error paths of i915_vma_pin_ww from inside i915_vma_bind: err_remove
\* takes the node of a VMA without bind bits out, dma_fence_work_commit_imm
\* lets go a work whose fence still carries -EAGAIN, which binds nothing.
BindFail(b, ret, why) ==
    [b EXCEPT !.pc = "done", !.ret = ret, !.why = why,
              !.node = IF b.bound THEN @ ELSE 0,
              !.work = IF @ = "none" THEN @ ELSE "cancelled"]

\* i915_vma_pin_ww up to the vm->mutex: the moving fence is taken, and with
\* it or for an asynchronous vm the work is allocated and chained.
BindStart(async) ==
    LET took == bs.moving # "none"
    IN /\ bs.pc = "idle"
       /\ bs' = [bs EXCEPT !.pc = "locked", !.async = async, !.took = took,
                           !.work = IF async \/ took THEN "chained" ELSE "none",
                           !.werr = IF async \/ took THEN -EAGAIN ELSE 0,
                           !.awaitMoving = (async \/ took) /\ WorkChain(took)]
       /\ UNCHANGED <<instVars, vmaVars, moveVars, colorVars, pinw, gtc, lateVars>>

\* i915_vma_insert: the node is allocated at range r, or there is no room.
BindInsert(r, ok) ==
    /\ bs.pc = "locked"
    /\ bs' = IF ok THEN [bs EXCEPT !.pc = "inserted", !.node = r]
             ELSE BindFail(bs, -ENOSPC, "insert")
    /\ UNCHANGED <<instVars, vmaVars, moveVars, colorVars, pinw, gtc, lateVars>>

\* i915_vma_bind, "Wait for or await async unbinds touching our range":
\* bind_dep_await puts the pending unbinds of the node's range on the work's
\* chain, bind_dep_sync returns when they have signaled; either may fail.
BindDeps(fail) ==
    /\ bs.pc = "inserted"
    /\ IF BindAsyncPath(bs)
       THEN bs' = IF fail THEN BindFail(bs, -ENOMEM, "deps")
                  ELSE [bs EXCEPT !.pc = "deps",
                                  !.awaitUnbinds = BindDepAwait(bs.unbinds, bs.node)]
       ELSE /\ fail \/ bs.unbinds[bs.node] # "pending"
            /\ bs' = IF fail THEN BindFail(bs, -ERESTARTSYS, "deps")
                      ELSE [bs EXCEPT !.pc = "deps"]
    /\ UNCHANGED <<instVars, vmaVars, moveVars, colorVars, pinw, gtc, lateVars>>

\* i915_vma_bind after the dependencies and the return through
\* dma_fence_work_commit_imm.  Asynchronous: the work becomes the exclusive
\* fence of vma->active, awaits the previous one, is enabled and committed.
\* Inline: i915_gem_object_wait_moving_fence, then ops->bind_vma.
BindProgram(intr) ==
    /\ bs.pc = "deps"
    /\ IF BindAsyncPath(bs)
       THEN bs' = [bs EXCEPT !.pc = "done", !.bound = TRUE, !.ret = 0,
                             !.awaitPrev = bs.prev # "none",
                             !.work = "committed", !.werr = 0]
       ELSE /\ intr \/ bs.moving # "pending"
            /\ bs' = IF intr THEN BindFail(bs, -ERESTARTSYS, "moving")
                      ELSE IF bs.moving = "error" THEN BindFail(bs, -EIO, "moving")
                      ELSE [bs EXCEPT !.pc = "done", !.bound = TRUE, !.ret = 0,
                                      !.pte = "programmed",
                                      !.binds = @ + 1,
                                      !.work = IF @ = "none" THEN @
                                               ELSE "cancelled"]
    /\ UNCHANGED <<instVars, vmaVars, moveVars, colorVars, pinw, gtc, lateVars>>

\* The committed work once everything on its chain has signaled: __vma_bind
\* calls ops->bind_vma, unless an awaited fence carried an error.
BindWorkRuns ==
    /\ bs.work = "committed"
    /\ bs.awaitMoving => bs.moving \in {"signaled", "error"}
    /\ bs.awaitPrev => bs.prev = "signaled"
    /\ \A r \in bs.awaitUnbinds : bs.unbinds[r] = "signaled"
    /\ bs' = IF bs.awaitMoving /\ bs.moving = "error"
             THEN [bs EXCEPT !.work = "skipped"]
             ELSE [bs EXCEPT !.work = "ran", !.pte = "programmed",
                             !.binds = @ + 1]
    /\ UNCHANGED <<instVars, vmaVars, moveVars, colorVars, pinw, gtc, lateVars>>

\* dma_fence_work (a variant that runs the work whatever its fence's error).
WorkDisabledNever(err) == FALSE
\* dma_fence_work: a work whose fence carries an error when its chain
\* completes is not run.
WorkDisabled(err) == err # 0

\* A work that i915_vma_bind did not arm, committed by
\* dma_fence_work_commit_imm at err_fence: its fence still carries the
\* -EAGAIN that i915_vma_work() gave it, so that __vma_bind is not called.
BindWorkUnarmed ==
    /\ bs.work = "cancelled"
    /\ bs.awaitMoving => bs.moving \in {"signaled", "error"}
    /\ bs' = IF WorkDisabled(bs.werr)
             THEN [bs EXCEPT !.work = "dropped"]
             ELSE [bs EXCEPT !.work = "misran", !.pte = "programmed",
                             !.binds = @ + 1]
    /\ UNCHANGED <<instVars, vmaVars, moveVars, colorVars, pinw, gtc, lateVars>>

\* The fences signal.
BindUnbindSignals(r) ==
    /\ bs.unbinds[r] = "pending"
    /\ bs' = [bs EXCEPT !.unbinds[r] = "signaled"]
    /\ UNCHANGED <<instVars, vmaVars, moveVars, colorVars, pinw, gtc, lateVars>>

BindMovingSignals(ok) ==
    /\ bs.moving = "pending"
    /\ bs' = [bs EXCEPT !.moving = IF ok THEN "signaled" ELSE "error"]
    /\ UNCHANGED <<instVars, vmaVars, moveVars, colorVars, pinw, gtc, lateVars>>

BindPrevSignals ==
    /\ bs.prev = "pending"
    /\ bs' = [bs EXCEPT !.prev = "signaled"]
    /\ UNCHANGED <<instVars, vmaVars, moveVars, colorVars, pinw, gtc, lateVars>>

BindInit ==
    bs \in {[BindIdle EXCEPT !.moving = m, !.prev = p, !.unbinds = u] :
               m \in {"none", "pending", "signaled", "error"},
               p \in {"none", "pending", "signaled"},
               u \in [BindRanges -> {"none", "pending", "signaled"}]}

BindQuiet == bs = <<>>

NextBind ==
    \/ \E async \in BOOLEAN : BindStart(async)
    \/ \E r \in BindRanges, ok \in BOOLEAN : BindInsert(r, ok)
    \/ \E fail \in BOOLEAN : BindDeps(fail)
    \/ \E intr \in BOOLEAN : BindProgram(intr)
    \/ BindWorkRuns
    \/ BindWorkUnarmed
    \/ \E r \in BindRanges : BindUnbindSignals(r)
    \/ \E ok \in BOOLEAN : BindMovingSignals(ok)
    \/ BindPrevSignals

(***************************************************************************)
(*            __i915_ggtt_pin: the loop around i915_vma_pin_ww             *)
(*                                                                         *)
(* One GGTT of VmTotal pages whose first MappableEnd pages are mappable,   *)
(* one VMA of gp.size pages that a caller pins with i915_ggtt_pin, and the *)
(* one-page nodes of other VMAs: "loose" (bound, not pinned: eviction      *)
(* removes them) or "held" (pinned by somebody else).                      *)
(***************************************************************************)

GgttPages == 0 .. VmTotal - 1

GgttEnd(g) == IF g.mappable THEN MappableEnd ELSE VmTotal

\* The offsets where i915_vma_insert can place the VMA, evicting the loose
\* nodes in its way: no page of the range is held.
GgttRoom(g) ==
    {o \in 0 .. GgttEnd(g) - g.size :
        \A p \in o .. o + g.size - 1 : g.pages[p] # "held"}

\* i915_ggtt_pin is called.
GgttPinCall ==
    /\ gp.pc = "idle"
    /\ gp' = [gp EXCEPT !.pc = "pin"]
    /\ UNCHANGED <<coreVars, pb, pg, io>>

\* i915_vma_pin_ww on the unbound VMA: some other error, -ENOSPC at once
\* when the size exceeds the range, -ENOSPC when no range can be cleared,
\* or the node is inserted (loose nodes in its way evicted), bound and
\* pinned. __i915_ggtt_pin returns every result but -ENOSPC.
GgttPinTry(fault) ==
    /\ gp.pc = "pin"
    /\ IF fault
       THEN gp' = [gp EXCEPT !.pc = "returned", !.ret = -EINTR]
       ELSE IF InsertOversize(gp.size, GgttEnd(gp)) \/ GgttRoom(gp) = {}
       THEN gp' = [gp EXCEPT !.pc = "flush", !.ret = -ENOSPC]
       ELSE \E o \in GgttRoom(gp) :
               gp' = [gp EXCEPT
                        !.pc = "wait", !.ret = 0, !.node = o,
                        !.pinned = TRUE,
                        !.pages = [p \in GgttPages |->
                                     IF p \in o .. o + gp.size - 1
                                     THEN "free" ELSE gp.pages[p]]]
    /\ UNCHANGED <<coreVars, pb, pg, io>>

\* After -ENOSPC: flush_idle_contexts, then i915_gem_evict_vm under the
\* mutex unless taking it was interrupted, and round again.
GgttFlushEvict(lockIntr) ==
    /\ gp.pc = "flush"
    /\ gp' = [gp EXCEPT
                !.pc = "pin",
                !.pages = IF lockIntr THEN @
                          ELSE [p \in GgttPages |->
                                  IF gp.pages[p] = "loose" THEN "free"
                                  ELSE gp.pages[p]]]
    /\ UNCHANGED <<coreVars, pb, pg, io>>

\* After a successful pin: i915_vma_wait_for_bind; when it fails the pin
\* is dropped and the error returned.
GgttWaitForBind(fail) ==
    /\ gp.pc = "wait"
    /\ gp' = IF fail
             THEN [gp EXCEPT !.pc = "returned", !.ret = -ERESTARTSYS,
                             !.pinned = FALSE]
             ELSE [gp EXCEPT !.pc = "returned", !.ret = 0]
    /\ UNCHANGED <<coreVars, pb, pg, io>>

\* The caller is done with the VMA: it unpins it and the VMA is unbound.
GgttRelease ==
    /\ gp.pc = "returned"
    /\ gp' = [gp EXCEPT !.pc = "idle", !.ret = 0, !.node = -1,
                        !.pinned = FALSE]
    /\ UNCHANGED <<coreVars, pb, pg, io>>

\* Another user of the GGTT unpins its VMA, or binds and pins one in a free
\* page or pins a bound one.
GgttOtherUnpins(p) ==
    /\ gp.pages[p] = "held"
    /\ gp' = [gp EXCEPT !.pages[p] = "loose"]
    /\ UNCHANGED <<coreVars, pb, pg, io>>

GgttOtherPins(p) ==
    /\ gp.pages[p] # "held"
    /\ gp.node = -1 \/ p \notin gp.node .. gp.node + gp.size - 1
    /\ gp' = [gp EXCEPT !.pages[p] = "held"]
    /\ UNCHANGED <<coreVars, pb, pg, io>>

\* The steps of the thread that called i915_ggtt_pin.
GgttCaller ==
    \/ \E fault \in BOOLEAN : GgttPinTry(fault)
    \/ \E lockIntr \in BOOLEAN : GgttFlushEvict(lockIntr)
    \/ \E fail \in BOOLEAN : GgttWaitForBind(fail)

GgttInit ==
    gp \in [pc : {"idle"}, size : 1 .. VmTotal + 1, mappable : BOOLEAN,
            pages : [GgttPages -> {"free", "loose", "held"}],
            node : {-1}, pinned : {FALSE}, ret : {0}]

(***************************************************************************)
(*        Pin, unpin and unbind racing on one VMA, step by step            *)
(*                                                                         *)
(* pb.pin, pb.bound, pb.node: the pin count, bind bits and node of the     *)
(* VMA; pb.objLock, pb.vmMutex: the holder of the object's dma_resv lock   *)
(* and of vm->mutex (0 = free); pb.bug: the GEM_BUG_ON of __i915_vma_evict *)
(* has fired; pb.t[t]: the position of thread t, the bind bits it asked    *)
(* for, the flags word try_qad_pin read, the pins it holds, the result of  *)
(* its last call and the path its last pin took.                           *)
(***************************************************************************)

NRaceThr == 2          \* threads working on the VMA
MaxRacePin == 2        \* pins held on the VMA at a time

RaceThreads == 1 .. NRaceThr

RaceIdle == [pc |-> "idle", bits |-> {}, seen |-> <<>>, held |-> 0,
             ret |-> 0, via |-> "none", async |-> FALSE]

\* The callers of i915_vma_pin_ww and of the unbind functions hold the
\* object's lock (assert_vma_held, assert_object_held_shared,
\* assert_object_held): a thread gets it when nobody has it.
CanLockObjectAlways(holder) == TRUE

CanLockObject(holder) == holder = 0

\* Thread t returns from its call with ret: it drops the locks it holds.
RaceReturn(b, t, ret, via) ==
    [b EXCEPT !.t[t].pc = "idle", !.t[t].ret = ret, !.t[t].via = via,
              !.t[t].seen = <<>>, !.t[t].bits = {}, !.t[t].async = FALSE,
              !.objLock = IF @ = t THEN 0 ELSE @,
              !.vmMutex = IF @ = t THEN 0 ELSE @]

RaceFrame == UNCHANGED <<coreVars, gp, pg, io>>

\* i915_vma_pin_ww(flags) is called; the caller first locks the object.
RacePinCall(t, bits) ==
    /\ pb.t[t].pc = "idle" /\ pb.pin < MaxRacePin
    /\ pb' = [pb EXCEPT !.t[t].pc = "pin_objlock", !.t[t].bits = bits]
    /\ RaceFrame

RacePinLockObj(t) ==
    /\ pb.t[t].pc = "pin_objlock" /\ CanLockObject(pb.objLock)
    /\ pb' = [pb EXCEPT !.objLock = t, !.t[t].pc = "qad_read"]
    /\ RaceFrame

\* try_qad_pin: bound = atomic_read(&vma->flags).
RaceQadRead(t) ==
    /\ pb.t[t].pc = "qad_read"
    /\ pb' = [pb EXCEPT !.t[t].pc = "qad_cas",
                        !.t[t].seen = [pin |-> pb.pin, bound |-> pb.bound]]
    /\ RaceFrame

\* try_qad_pin: one turn of its loop: false when a requested bit is not in
\* the word read, else atomic_try_cmpxchg(&vma->flags, &bound, bound + 1),
\* which reloads the word when it has changed.
RaceQadCas(t) ==
    /\ pb.t[t].pc = "qad_cas"
    /\ LET seen == pb.t[t].seen IN
       IF ~(pb.t[t].bits \subseteq seen.bound)
       THEN pb' = [pb EXCEPT !.t[t].pc = "slow_mutex", !.t[t].seen = <<>>]
       ELSE IF seen = [pin |-> pb.pin, bound |-> pb.bound]
       THEN pb' = RaceReturn([pb EXCEPT !.pin = @ + 1, !.t[t].held = @ + 1],
                             t, 0, "qad")
       ELSE pb' = [pb EXCEPT !.t[t].seen =
                               [pin |-> pb.pin, bound |-> pb.bound]]
    /\ RaceFrame

\* i915_vma_pin_ww, slow path: mutex_lock_interruptible(&vma->vm->mutex).
RaceSlowMutex(t, intr) ==
    /\ pb.t[t].pc = "slow_mutex"
    /\ IF intr THEN pb' = RaceReturn(pb, t, -EINTR, "none")
       ELSE /\ pb.vmMutex = 0
            /\ pb' = [pb EXCEPT !.vmMutex = t, !.t[t].pc = "slow_bound"]
    /\ RaceFrame

\* Under the mutex: already bound with the requested bits, pin and leave.
RaceSlowBound(t) ==
    /\ pb.t[t].pc = "slow_bound"
    /\ IF pb.t[t].bits \subseteq pb.bound
       THEN pb' = RaceReturn([pb EXCEPT !.pin = @ + 1, !.t[t].held = @ + 1],
                             t, 0, "slow")
       ELSE pb' = [pb EXCEPT !.t[t].pc = "slow_insert"]
    /\ RaceFrame

\* i915_vma_insert when no bind bit is set.
RaceSlowInsert(t, ok) ==
    /\ pb.t[t].pc = "slow_insert"
    /\ IF pb.bound # {} THEN pb' = [pb EXCEPT !.t[t].pc = "slow_bind"]
       ELSE IF ok THEN pb' = [pb EXCEPT !.node = TRUE,
                                        !.t[t].pc = "slow_bind"]
       ELSE pb' = RaceReturn(pb, t, -ENOSPC, "none")
    /\ RaceFrame

\* i915_vma_bind: atomic_or(bind_flags, &vma->flags); on failure err_remove
\* takes the node of a VMA without bind bits away.
RaceSlowBind(t, ok) ==
    /\ pb.t[t].pc = "slow_bind"
    /\ IF ok
       THEN pb' = [pb EXCEPT !.bound = @ \cup pb.t[t].bits,
                             !.t[t].pc = "slow_pin"]
       ELSE pb' = RaceReturn([pb EXCEPT !.node = IF pb.bound = {} THEN FALSE
                                                ELSE @],
                             t, -EINTR, "none")
    /\ RaceFrame

\* __i915_vma_pin(vma) at the end of the slow path.
RaceSlowPin(t) ==
    /\ pb.t[t].pc = "slow_pin"
    /\ pb' = RaceReturn([pb EXCEPT !.pin = @ + 1, !.t[t].held = @ + 1],
                        t, 0, "slow")
    /\ RaceFrame

\* i915_vma_unpin by a thread that holds a pin: no lock.
RaceUnpin(t) ==
    /\ pb.t[t].pc = "idle" /\ pb.t[t].held > 0
    /\ pb' = [pb EXCEPT !.pin = @ - 1, !.t[t].held = @ - 1]
    /\ RaceFrame

\* i915_vma_unbind or i915_vma_unbind_async is called; the caller first
\* locks the object.
RaceUnbindCall(t, async) ==
    /\ pb.t[t].pc = "idle"
    /\ pb' = [pb EXCEPT !.t[t].pc = "ub_objlock", !.t[t].async = async]
    /\ RaceFrame

RaceUnbindLockObj(t) ==
    /\ pb.t[t].pc = "ub_objlock" /\ CanLockObject(pb.objLock)
    /\ pb' = [pb EXCEPT !.objLock = t, !.t[t].pc = "ub_check"]
    /\ RaceFrame

\* The tests before the mutex: no node, return 0; pinned, return -EAGAIN.
RaceUnbindCheck(t) ==
    /\ pb.t[t].pc = "ub_check"
    /\ IF ~pb.node THEN pb' = RaceReturn(pb, t, 0, "none")
       ELSE IF pb.pin > 0 THEN pb' = RaceReturn(pb, t, -EAGAIN, "none")
       ELSE pb' = [pb EXCEPT !.t[t].pc = "ub_mutex"]
    /\ RaceFrame

RaceUnbindMutex(t, intr) ==
    /\ pb.t[t].pc = "ub_mutex"
    /\ IF intr THEN pb' = RaceReturn(pb, t, -EINTR, "none")
       ELSE /\ pb.vmMutex = 0
            /\ pb' = [pb EXCEPT !.vmMutex = t, !.t[t].pc = "ub_locked"]
    /\ RaceFrame

\* __i915_vma_unbind / __i915_vma_unbind_async: the same tests under the
\* mutex.
RaceUnbindLocked(t) ==
    /\ pb.t[t].pc = "ub_locked"
    /\ IF ~pb.node THEN pb' = RaceReturn(pb, t, 0, "none")
       ELSE IF pb.pin > 0 THEN pb' = RaceReturn(pb, t, -EAGAIN, "none")
       ELSE pb' = [pb EXCEPT !.t[t].pc = "ub_sync"]
    /\ RaceFrame

\* i915_vma_sync, or i915_sw_fence_await_active of the asynchronous unbind.
RaceUnbindSync(t, fail) ==
    /\ pb.t[t].pc = "ub_sync"
    /\ IF fail
       THEN pb' = RaceReturn(pb, t, IF pb.t[t].async THEN -EBUSY ELSE -EINTR,
                             "none")
       ELSE pb' = [pb EXCEPT !.t[t].pc = "ub_evict"]
    /\ RaceFrame

\* __i915_vma_evict: GEM_BUG_ON(i915_vma_is_pinned(vma)), then the bind
\* bits are cleared.
RaceUnbindEvict(t) ==
    /\ pb.t[t].pc = "ub_evict"
    /\ pb' = [pb EXCEPT !.bug = @ \/ pb.pin > 0, !.bound = {},
                        !.t[t].pc = "ub_remove"]
    /\ RaceFrame

\* drm_mm_remove_node(&vma->node), and the unbind returns.
RaceUnbindRemove(t) ==
    /\ pb.t[t].pc = "ub_remove"
    /\ pb' = RaceReturn([pb EXCEPT !.node = FALSE], t, 0, "none")
    /\ RaceFrame

RaceInit ==
    pb = [pin |-> 0, bound |-> {}, node |-> FALSE, objLock |-> 0,
          vmMutex |-> 0, bug |-> FALSE,
          t |-> [t \in RaceThreads |-> RaceIdle]]

(***************************************************************************)
(*                   The page references of one VMA                        *)
(*                                                                         *)
(* pg.pages_count is vma->pages_count: its low part counts the references  *)
(* on vma->pages (one for each binding and one for each pin in progress),  *)
(* its part above I915_VMA_PAGES_BIAS the bindings.  pg.pages: vma->pages  *)
(* is set; pg.objPins: the pins of the object's pages this VMA holds, pins *)
(* minus unpins; pg.nbind: successful binds since the last unbind;         *)
(* pg.dropped: the bindings the last unbind released;                      *)
(* pg.bug: a GEM_BUG_ON of the page accounting has fired.  The pinner is   *)
(* one thread (the callers hold the object's lock); an unbind may come     *)
(* between any two of its steps.                                           *)
(***************************************************************************)

I915_VMA_PAGES_BIAS == 3   \* the shift of the bindings part (scaled down)

PagesUnit == 2 ^ I915_VMA_PAGES_BIAS

I915_VMA_PAGES_ACTIVE == PagesUnit + 1

PagesFrame == UNCHANGED <<coreVars, gp, pb, io>>

\* __vma_put_pages(vma, count): at zero vma->pages is freed and the
\* object's pages are unpinned.
vma_put_pages(g, count) ==
    LET left == g.pages_count - count IN
    [g EXCEPT !.bug = @ \/ g.pages_count < count,
              !.pages_count = left,
              !.pages = IF left = 0 THEN FALSE ELSE @,
              !.objPins = IF left = 0 THEN @ - 1 ELSE @]

\* i915_vma_put_pages: atomic_add_unless(&vma->pages_count, -1, 1), else
\* __vma_put_pages(vma, 1).
i915_vma_put_pages(g) ==
    IF g.pages_count # 1 THEN [g EXCEPT !.pages_count = @ - 1]
    ELSE vma_put_pages(g, 1)

\* vma_unbind_pages: the number of bindings it reads (a variant that takes
\* it for one).
VmaUnbindCountOne(pages_count) == 1
\* vma_unbind_pages: count = pages_count >> I915_VMA_PAGES_BIAS.
VmaUnbindCount(pages_count) == pages_count \div PagesUnit

\* vma_unbind_pages: __vma_put_pages(vma, count | count << BIAS).
vma_unbind_pages(g) ==
    LET count == VmaUnbindCount(g.pages_count) IN
    vma_put_pages([g EXCEPT !.bug = @ \/ count = 0],
                  count + count * PagesUnit)

\* i915_vma_pin_ww is called. try_qad_pin: a VMA bound with the requested
\* bits is pinned (or validated) without touching the pages.
PagesPinCall(bits, validate) ==
    /\ pg.pc = "idle" /\ pg.pin < MaxRacePin
    /\ pg' = IF bits \subseteq pg.bound
             THEN [pg EXCEPT !.pin = IF validate THEN @ ELSE @ + 1,
                             !.ret = 0]
             ELSE [pg EXCEPT !.pc = "get", !.bits = bits,
                             !.validate = validate]
    /\ PagesFrame

\* i915_vma_get_pages: one more reference when there are some, else the
\* object's pages are pinned and vma->pages set up; on failure the pin is
\* dropped again and i915_vma_pin_ww returns the error at once.
PagesGet(fail) ==
    /\ pg.pc = "get"
    /\ pg' = IF pg.pages_count # 0
             THEN [pg EXCEPT !.pc = "lock", !.pages_count = @ + 1]
             ELSE IF fail
             THEN [pg EXCEPT !.pc = "idle", !.ret = -ENOMEM, !.bits = {},
                             !.validate = FALSE]
             ELSE [pg EXCEPT !.pc = "lock", !.pages_count = 1,
                             !.pages = TRUE, !.objPins = @ + 1]
    /\ PagesFrame

\* The slow path under vm->mutex: it fails before or inside i915_vma_bind;
\* or the bits are bound by now and it only pins; or i915_vma_bind binds
\* the missing bits and I915_VMA_PAGES_ACTIVE is added to pages_count.
PagesBind(fail) ==
    /\ pg.pc = "lock"
    /\ pg' = IF fail THEN [pg EXCEPT !.pc = "put", !.ret = -ENOSPC]
             ELSE IF pg.bits \subseteq pg.bound
             THEN [pg EXCEPT !.pc = "put", !.ret = 0,
                             !.pin = IF pg.validate THEN @ ELSE @ + 1]
             ELSE [pg EXCEPT !.pc = "put", !.ret = 0,
                             !.bound = @ \cup pg.bits,
                             !.nbind = @ + 1,
                             !.pages_count = @ + I915_VMA_PAGES_ACTIVE,
                             !.pin = IF pg.validate THEN @ ELSE @ + 1]
    /\ PagesFrame

\* err_rpm: i915_vma_put_pages(vma), on every path past i915_vma_get_pages.
PagesPut ==
    /\ pg.pc = "put"
    /\ pg' = [i915_vma_put_pages(pg) EXCEPT !.pc = "idle", !.bits = {},
                                            !.validate = FALSE]
    /\ PagesFrame

\* i915_vma_unpin
PagesUnpin ==
    /\ pg.pin > 0
    /\ pg' = [pg EXCEPT !.pin = @ - 1]
    /\ PagesFrame

\* A successful unbind (__i915_vma_unbind or __i915_vma_unbind_async) of
\* the bound, unpinned VMA: __i915_vma_evict clears the bind bits and calls
\* vma_unbind_pages.
PagesUnbind ==
    /\ pg.bound # {} /\ pg.pin = 0
    /\ pg' = [vma_unbind_pages(pg) EXCEPT !.bound = {}, !.nbind = 0,
                                          !.dropped = pg.nbind]
    /\ PagesFrame

PagesInit ==
    pg = [pc |-> "idle", bits |-> {}, validate |-> FALSE, ret |-> 0,
          pin |-> 0, bound |-> {}, nbind |-> 0, pages_count |-> 0,
          pages |-> FALSE, objPins |-> 0, dropped |-> 0, bug |-> FALSE]

(***************************************************************************)
(*            i915_vma_pin_iomap called by several contexts                *)
(*                                                                         *)
(* io.iomap: vma->iomap, 0 for NULL, else the mapping stored (a mapping is *)
(* named after the thread that created it); io.live: the mappings that     *)
(* exist; io.pin: the pin count; io.mappable: the VMA is map-and-fenceable *)
(* or its object is in lmem; io.t[t]: thread t's position, its ptr, the    *)
(* pins it holds, the result and the pointer of its last call, and whether *)
(* that call lost the cmpxchg.                                             *)
(***************************************************************************)

NIomapThr == 3         \* threads calling i915_vma_pin_iomap

IomapThreads == 1 .. NIomapThr

IomapIdle == [pc |-> "idle", ptr |-> 0, held |-> 0, ret |-> 0, got |-> 0,
              lost |-> FALSE]

IomapFrame == UNCHANGED <<coreVars, gp, pb, pg>>

\* The call returns: an error, or the pointer with the pin kept.
IomapReturn(o, t, ret) ==
    [o EXCEPT !.t[t].pc = "idle", !.t[t].ret = ret,
              !.t[t].got = IF ret = 0 THEN o.t[t].ptr ELSE 0,
              !.t[t].held = IF ret = 0 THEN @ + 1 ELSE @,
              !.t[t].ptr = 0]

\* i915_vma_pin_iomap is called: -ENODEV for a VMA that is neither in lmem
\* nor map-and-fenceable.
IomapCall(t) ==
    /\ io.t[t].pc = "idle" /\ io.t[t].held = 0
    /\ io' = IF ~io.mappable
             THEN IomapReturn([io EXCEPT !.t[t].lost = FALSE], t, -ENODEV)
             ELSE [io EXCEPT !.t[t].pc = "read", !.t[t].lost = FALSE,
                             !.t[t].ret = 0, !.t[t].got = 0]
    /\ IomapFrame

\* ptr = READ_ONCE(vma->iomap)
IomapRead(t) ==
    /\ io.t[t].pc = "read"
    /\ io' = [io EXCEPT !.t[t].ptr = io.iomap,
                        !.t[t].pc = IF io.iomap = 0 THEN "map" ELSE "pin"]
    /\ IomapFrame

\* i915_gem_object_lmem_io_map / io_mapping_map_wc: a new mapping, or NULL
\* and -ENOMEM.
IomapMap(t, fail) ==
    /\ io.t[t].pc = "map"
    /\ io' = IF fail THEN IomapReturn(io, t, -ENOMEM)
             ELSE [io EXCEPT !.live = @ \cup {t}, !.t[t].ptr = t,
                             !.t[t].pc = "cas"]
    /\ IomapFrame

\* cmpxchg(&vma->iomap, NULL, ptr)
IomapCas(t) ==
    /\ io.t[t].pc = "cas"
    /\ io' = IF io.iomap = 0
             THEN [io EXCEPT !.iomap = io.t[t].ptr, !.t[t].pc = "pin"]
             ELSE [io EXCEPT !.t[t].pc = "unmap", !.t[t].lost = TRUE]
    /\ IomapFrame

\* The loser of the cmpxchg (a variant that keeps its mapping).
IomapLoserKeeps(live, ptr) == live
\* The loser of the cmpxchg: io_mapping_unmap(ptr).
IomapLoserUnmaps(live, ptr) == live \ {ptr}

\* The loser unmaps the mapping it created and takes ptr = vma->iomap.
IomapLost(t) ==
    /\ io.t[t].pc = "unmap"
    /\ io' = [io EXCEPT !.live = IomapLoserUnmaps(@, io.t[t].ptr),
                        !.t[t].ptr = io.iomap, !.t[t].pc = "pin"]
    /\ IomapFrame

\* __i915_vma_pin(vma)
IomapPin(t) ==
    /\ io.t[t].pc = "pin"
    /\ io' = [io EXCEPT !.pin = @ + 1, !.t[t].pc = "fence"]
    /\ IomapFrame

\* i915_vma_pin_fence: on an error the pin is dropped and the error
\* returned, else the pointer is returned.
IomapPinFence(t, fail) ==
    /\ io.t[t].pc = "fence"
    /\ io' = IF fail THEN IomapReturn([io EXCEPT !.pin = @ - 1], t, -EINTR)
             ELSE IomapReturn(io, t, 0)
    /\ IomapFrame

\* i915_vma_unpin_iomap by a thread whose call succeeded.
IomapUnpin(t) ==
    /\ io.t[t].pc = "idle" /\ io.t[t].held > 0
    /\ io' = [io EXCEPT !.pin = @ - 1, !.t[t].held = @ - 1]
    /\ IomapFrame

IomapInit ==
    \E m \in BOOLEAN :
        io = [iomap |-> 0, live |-> {}, pin |-> 0, mappable |-> m,
              t |-> [t \in IomapThreads |-> IomapIdle]]

GgttQuiet == gp = <<>>

RaceQuiet == pb = <<>>

PagesQuiet == pg = <<>>

IomapQuiet == io = <<>>

LateQuiet == GgttQuiet /\ RaceQuiet /\ PagesQuiet /\ IomapQuiet

AuxQuiet == PinQuiet /\ CloseQuiet /\ BindQuiet /\ LateQuiet

(***************************************************************************)
(*                            Specifications                               *)
(***************************************************************************)

Init == InstInit /\ VmaInit /\ MoveQuiet /\ ColorQuiet /\ AuxQuiet

InitInstance == InstInit /\ VmaQuiet /\ MoveQuiet /\ ColorQuiet /\ AuxQuiet

InitMove == InstInit /\ VmaQuiet /\ MoveInit /\ ColorQuiet /\ AuxQuiet

InitColor == InstInit /\ VmaQuiet /\ MoveQuiet /\ ColorInit /\ AuxQuiet

Next ==
    \/ \E v \in Vmas, c \in PinCalls : PinWw(v, c[1], c[2])
    \/ \E v \in Vmas : Unpin(v)
    \/ \E v \in Vmas, syncOk \in BOOLEAN : VmaUnbindLocked(v, syncOk)
    \/ \E v \in Vmas, fault \in UnbindFaults : VmaUnbind(v, fault)
    \/ \E v \in Vmas, trylock \in BOOLEAN, fault \in UnbindAsyncFaults :
          VmaUnbindAsync(v, trylock, fault)
    \/ \E v \in Vmas : MoveToActive(v)
    \/ \E v \in Vmas : Retire(v)
    \/ \E v \in Vmas : ObjectMoves(v)
    \/ \E v \in Vmas, ok \in BOOLEAN : MovingSignals(v, ok)
    \/ \E v \in Vmas : VmaSetError(v)

Spec == Init /\ [][Next]_vars

SpecInstance == InitInstance /\ [][NextInstance]_vars

SpecMove == InitMove /\ [][NextMove]_vars

SpecColor == InitColor /\ [][NextColor]_vars

SpecCopy == InitMove /\ [][NextCopy]_vars

InitPin ==
    InstInit /\ VmaQuiet /\ MoveQuiet /\ ColorQuiet /\ PinInit /\ CloseQuiet /\ BindQuiet
    /\ LateQuiet

SpecPin == InitPin /\ [][NextPin]_vars

InitClose ==
    InstInit /\ VmaQuiet /\ MoveQuiet /\ ColorQuiet /\ PinQuiet /\ CloseInit /\ BindQuiet
    /\ LateQuiet

SpecClose == InitClose /\ [][NextClose]_vars

InitBind ==
    InstInit /\ VmaQuiet /\ MoveQuiet /\ ColorQuiet /\ PinQuiet /\ CloseQuiet /\ BindInit
    /\ LateQuiet

SpecBind == InitBind /\ [][NextBind]_vars

NextRace ==
    \E t \in RaceThreads :
        \/ \E bits \in (SUBSET I915_VMA_BIND_MASK) \ {{}} :
              RacePinCall(t, bits)
        \/ RacePinLockObj(t)
        \/ RaceQadRead(t)
        \/ RaceQadCas(t)
        \/ \E intr \in BOOLEAN : RaceSlowMutex(t, intr)
        \/ RaceSlowBound(t)
        \/ \E ok \in BOOLEAN : RaceSlowInsert(t, ok)
        \/ \E ok \in BOOLEAN : RaceSlowBind(t, ok)
        \/ RaceSlowPin(t)
        \/ RaceUnpin(t)
        \/ \E async \in BOOLEAN : RaceUnbindCall(t, async)
        \/ RaceUnbindLockObj(t)
        \/ RaceUnbindCheck(t)
        \/ \E intr \in BOOLEAN : RaceUnbindMutex(t, intr)
        \/ RaceUnbindLocked(t)
        \/ \E fail \in BOOLEAN : RaceUnbindSync(t, fail)
        \/ RaceUnbindEvict(t)
        \/ RaceUnbindRemove(t)

InitRace ==
    InstInit /\ VmaQuiet /\ MoveQuiet /\ ColorQuiet /\ PinQuiet /\ CloseQuiet
    /\ BindQuiet /\ GgttQuiet /\ RaceInit /\ PagesQuiet /\ IomapQuiet

SpecRace == InitRace /\ [][NextRace]_vars

NextPages ==
    \/ \E bits \in (SUBSET I915_VMA_BIND_MASK) \ {{}}, validate \in BOOLEAN :
          PagesPinCall(bits, validate)
    \/ \E fail \in BOOLEAN : PagesGet(fail)
    \/ \E fail \in BOOLEAN : PagesBind(fail)
    \/ PagesPut
    \/ PagesUnpin
    \/ PagesUnbind

InitPages ==
    InstInit /\ VmaQuiet /\ MoveQuiet /\ ColorQuiet /\ PinQuiet /\ CloseQuiet
    /\ BindQuiet /\ GgttQuiet /\ RaceQuiet /\ PagesInit /\ IomapQuiet

SpecPages == InitPages /\ [][NextPages]_vars

NextIomap ==
    \E t \in IomapThreads :
        \/ IomapCall(t)
        \/ IomapRead(t)
        \/ \E fail \in BOOLEAN : IomapMap(t, fail)
        \/ IomapCas(t)
        \/ IomapLost(t)
        \/ IomapPin(t)
        \/ \E fail \in BOOLEAN : IomapPinFence(t, fail)
        \/ IomapUnpin(t)

InitIomap ==
    InstInit /\ VmaQuiet /\ MoveQuiet /\ ColorQuiet /\ PinQuiet /\ CloseQuiet
    /\ BindQuiet /\ GgttQuiet /\ RaceQuiet /\ PagesQuiet /\ IomapInit

SpecIomap == InitIomap /\ [][NextIomap]_vars

NextGgtt ==
    \/ GgttPinCall
    \/ \E fault \in BOOLEAN : GgttPinTry(fault)
    \/ \E lockIntr \in BOOLEAN : GgttFlushEvict(lockIntr)
    \/ \E fail \in BOOLEAN : GgttWaitForBind(fail)
    \/ GgttRelease
    \/ \E p \in GgttPages : GgttOtherUnpins(p)
    \/ \E p \in GgttPages : GgttOtherPins(p)

InitGgtt ==
    InstInit /\ VmaQuiet /\ MoveQuiet /\ ColorQuiet /\ PinQuiet /\ CloseQuiet
    /\ BindQuiet /\ GgttInit /\ RaceQuiet /\ PagesQuiet /\ IomapQuiet

SpecGgtt == InitGgtt /\ [][NextGgtt]_vars

\* The calling thread keeps running: it is never stopped for ever between
\* two steps of the call.
SpecGgttFair == SpecGgtt /\ WF_vars(GgttCaller)

\* The migration request completes and queued work runs.
SpecMoveFair ==
    /\ SpecMove
    /\ WF_vars(\E error \in BOOLEAN : GpuCompletes(error))
    /\ WF_vars(MemcpyWork)
    /\ WF_vars(MemcpyIrqWork)

(***************************************************************************)
(*                     Properties of pin, bind and unbind                  *)
(*                                                                         *)
(* Each property is stated over the outcomes of a call made in the current *)
(* state: TLC checks it in every state the address space can reach.        *)
(***************************************************************************)

\* The part of a VMA a caller can observe: bind bits, pin count, node,
\* bound-list membership, can-fence flag and vma->resource.
VmaObserved(w, v) ==
    [bound |-> w.vs[v].bound, pin |-> w.vs[v].pin, node |-> w.vs[v].node,
     listed |-> InList(w.bl, v), canFence |-> w.vs[v].canFence,
     resource |-> w.vs[v].resource]

\* The bind bits, the node and the resource of a VMA.
VmaBinding(w, v) ==
    [bound |-> w.vs[v].bound, node |-> w.vs[v].node,
     resource |-> w.vs[v].resource]

\* The results of the three unbind entry points on VMA v: [op, w, ret].
UnbindResults(v) ==
    {[op |-> "i915_vma_unbind", w |-> o.w, ret |-> o.ret, fault |-> fault] :
        <<o, fault>> \in UNION {i915_vma_unbind(World, v, fault) \X {fault} :
                                   fault \in UnbindFaults}}
    \cup {[op |-> "__i915_vma_unbind",
           w |-> i915_vma_unbind_locked(World, v, syncOk).w,
           ret |-> i915_vma_unbind_locked(World, v, syncOk).ret,
           fault |-> IF syncOk THEN "none" ELSE "sync"] : syncOk \in BOOLEAN}
    \cup UNION {{[op |-> "i915_vma_unbind_async", w |-> o.w, ret |-> o.ret,
                  fault |-> c[2]] :
                   o \in i915_vma_unbind_async(World, v, c[1], c[2])} :
                c \in BOOLEAN \X UnbindAsyncFaults}

PinnedWithNode(v) ==
    i915_vma_is_pinned(vmas[v]) /\ drm_mm_node_allocated(vmas[v])

\* C2 (as stated): for a VMA with an allocated node and a pin count above
\* zero, each of i915_vma_unbind, __i915_vma_unbind and i915_vma_unbind_async
\* returns -EAGAIN and leaves the bind bits, the node and the resource as
\* they were.
C2_AsStated ==
    \A v \in Vmas : PinnedWithNode(v) =>
        \A r \in UnbindResults(v) :
            /\ r.ret = -EAGAIN
            /\ VmaBinding(r.w, v) = VmaBinding(World, v)

\* C2 (amended): for a VMA with an allocated node and a pin count above zero,
\* no unbind entry point returns 0 and each leaves the bind bits, the node and
\* the resource as they were; the error is -EAGAIN, except that
\* i915_vma_unbind returns the error of its opening i915_vma_sync when that
\* wait on an active VMA is interrupted.
C2_UnbindPinnedFails ==
    \A v \in Vmas : PinnedWithNode(v) =>
        \A r \in UnbindResults(v) :
            /\ r.ret # 0
            /\ VmaBinding(r.w, v) = VmaBinding(World, v)
            /\ \/ r.ret = -EAGAIN
               \/ /\ r.op = "i915_vma_unbind"
                  /\ r.fault = "sync"
                  /\ vmas[v].active
                  /\ r.ret = -EINTR

\* A pinned, bound, active VMA: all three entry points have a result, and
\* i915_vma_unbind has both the busy one and the interrupted one.
C2_Witness ==
    \E v \in Vmas :
        /\ PinnedWithNode(v)
        /\ vmas[v].bound # {}
        /\ vmas[v].active
        /\ \A op \in {"i915_vma_unbind", "__i915_vma_unbind",
                      "i915_vma_unbind_async"} :
              \E r \in UnbindResults(v) : r.op = op /\ r.ret = -EAGAIN
        /\ \E r \in UnbindResults(v) : r.op = "i915_vma_unbind" /\ r.ret = -EINTR

\* The outcomes of every i915_vma_pin_ww call a caller can make on VMA v:
\* [f, fault, o].
PinResults(v) ==
    IF vmas[v].pin >= MaxPin THEN {}
    ELSE UNION {{[f |-> c[1], fault |-> c[2], o |-> o] :
                   o \in i915_vma_pin_ww(v, c[1], c[2])} : c \in PinCalls}

\* C3 (as stated): whenever i915_vma_pin_ww returns an error, the VMA's bind
\* bits, pin count, node, bound-list membership, can-fence flag and
\* vma->resource are what they were before the call, for an unbound VMA and
\* for a VMA bound with one bit that was asked for another.
C3_FailedPinUnchanged ==
    \A v \in Vmas : \A r \in PinResults(v) :
        r.o.ret # 0 => VmaObserved(r.o.w, v) = VmaObserved(World, v)

\* C3, the part that holds: a failed pin leaves the bind bits, the pin count,
\* the node and the bound-list membership as they were.
C3_FailedPinKeepsBinding ==
    \A v \in Vmas : \A r \in PinResults(v) :
        r.o.ret # 0 =>
            /\ r.o.w.vs[v].bound = vmas[v].bound
            /\ r.o.w.vs[v].pin = vmas[v].pin
            /\ r.o.w.vs[v].node = vmas[v].node
            /\ InList(r.o.w.bl, v) = InList(boundList, v)

\* A VMA bound with one bit whose pin for the other bit fails in the wait for
\* the moving fence, and loses its resource.
C3_Witness ==
    \E v \in Vmas : \E r \in PinResults(v) :
        /\ Cardinality(vmas[v].bound) = 1
        /\ r.f.bind \ vmas[v].bound # {}
        /\ r.o.ret # 0
        /\ vmas[v].resource # NULL
        /\ r.o.w.vs[v].resource = NULL

\* C4: i915_vma_pin_ww raises the pin count only by one, only when it returns
\* 0 without PIN_VALIDATE, and then every requested bind bit is set; the
\* quick path does so only when the bits were set before the call; no error
\* return changes the pin count.
C4_PinOnlyAfterBind ==
    \A v \in Vmas : \A r \in PinResults(v) :
        /\ r.o.w.vs[v].pin \in {vmas[v].pin, vmas[v].pin + 1}
        /\ r.o.w.vs[v].pin # vmas[v].pin =>
              /\ r.o.ret = 0
              /\ ~r.f.validate
              /\ r.f.bind \subseteq r.o.w.vs[v].bound
              /\ r.o.fast => r.f.bind \subseteq vmas[v].bound
        /\ r.o.ret # 0 => r.o.w.vs[v].pin = vmas[v].pin

\* One VMA holds the pin that a completed i915_vma_pin_ww gave it, with its
\* bits bound; on the other a pin that goes through i915_vma_bind can fail
\* and can succeed on new bind bits.
C4_Witness ==
    \E v \in Vmas :
        /\ \E u \in Vmas \ {v} :
              /\ vmas[u].pin = 1 /\ vmas[u].bound # {}
              /\ vmas[u].node.allocated /\ vmas[u].resource # NULL
        /\ \E r \in PinResults(v) :
              r.o.ret # 0 /\ r.fault = "bind_dep" /\ ~r.f.validate
        /\ \E r \in PinResults(v) :
              /\ r.o.ret = 0 /\ ~r.o.fast /\ ~r.f.validate
              /\ r.f.bind \ vmas[v].bound # {}
              /\ r.o.w.vs[v].pin = vmas[v].pin + 1

\* The calls of Scenario B on VMA v: both bind bits, no PIN_VALIDATE, on an
\* unbound and unpinned VMA whose object has no moving fence, in an address
\* space with no bind_async_flags.
ScenarioB(v) ==
    IF /\ vmAsync = {}
       /\ vmas[v].bound = {} /\ vmas[v].pin = 0 /\ ~vmas[v].node.allocated
       /\ vmas[v].moving = "none"
    THEN {r \in PinResults(v) : r.f.bind = I915_VMA_BIND_MASK /\ ~r.f.validate}
    ELSE {}

\* C9: in Scenario B the pin creates no binding work; when none of its
\* collaborators fails and the address space has room for the node it returns
\* 0; and whenever it returns 0 the pin count is 1, both bind bits are set and
\* the page tables were programmed inline.
C9_ScenarioB ==
    \A v \in Vmas : \A r \in ScenarioB(v) :
        /\ ~r.o.work
        /\ r.o.ret = 0 =>
              /\ r.o.w.vs[v].pin = 1
              /\ r.o.w.vs[v].bound = I915_VMA_BIND_MASK
              /\ r.o.inline
              /\ r.o.w.vs[v].node.allocated
              /\ r.o.w.vs[v].resource # NULL
        /\ (r.fault = "none" /\ r.o.ret # 0) => r.o.ret \in {-ENOSPC, -EINVAL}

\* Scenario B succeeding while the other VMA holds a node.
C9_Witness ==
    \E v \in Vmas :
        /\ \E u \in Vmas \ {v} : vmas[u].node.allocated
        /\ \E r \in ScenarioB(v) : r.o.ret = 0 /\ r.o.inline /\ r.fault = "none"

\* C10: the ranges of the allocated nodes are pairwise disjoint and lie
\* inside [0, vm->total).
C10_NoOverlap ==
    \A v \in Vmas : vmas[v].node.allocated =>
        /\ vmas[v].node.start >= 0
        /\ vmas[v].node.size > 0
        /\ vmas[v].node.start + vmas[v].node.size <= VmTotal
        /\ \A u \in Vmas \ {v} : vmas[u].node.allocated =>
              ~Overlaps(vmas[v].node.start, vmas[v].node.size,
                        vmas[u].node.start, vmas[u].node.size)

\* Two nodes side by side filling the address space to its end.
C10_Witness ==
    \E v \in Vmas : \E u \in Vmas \ {v} :
        /\ vmas[v].node.allocated /\ vmas[u].node.allocated
        /\ vmas[v].node.start + vmas[v].node.size = vmas[u].node.start
        /\ vmas[u].node.start + vmas[u].node.size = VmTotal

\* C24: i915_vma_insert on a VMA without a node, asked for more than its
\* window holds (the largest of the requested size, the VMA's size and, for a
\* mappable pin, the fence size, against vm->total cut to mappable_end by
\* PIN_MAPPABLE and to the 4GiB zone by PIN_ZONE_4G), returns -ENOSPC without
\* calling i915_gem_gtt_reserve or i915_gem_gtt_insert, evicting nothing and
\* allocating no node.
C24_OversizeFailsFast ==
    \A v \in Vmas : ~vmas[v].node.allocated =>
        \A f \in PinArgs : \A intr \in BOOLEAN :
            \A o \in i915_vma_insert(World, v, f, intr) :
                LET size == Max(Max(f.size, VmaSize(v)),
                                IF f.mappable THEN VmaFenceSize(v) ELSE 0)
                    end0 == IF f.mappable THEN Min(VmTotal, MappableEnd)
                            ELSE VmTotal
                    end == IF f.zone4g THEN Min(end0, Zone4GEnd) ELSE end0
                IN size > end =>
                      /\ o.ret = -ENOSPC
                      /\ ~o.searched
                      /\ o.w = World

\* A VMA without a node beside one that has a node to evict, whose oversized
\* request is refused under PIN_MAPPABLE and under PIN_ZONE_4G, while a
\* request that fits its window reaches the allocator.
C24_Witness ==
    \E v \in Vmas :
        /\ ~vmas[v].node.allocated
        /\ \E u \in Vmas \ {v} : vmas[u].node.allocated
        /\ \E f \in PinArgs : \E o \in i915_vma_insert(World, v, f, FALSE) :
              f.mappable /\ f.size > MappableEnd /\ o.ret = -ENOSPC
        /\ \E f \in PinArgs : \E o \in i915_vma_insert(World, v, f, FALSE) :
              f.zone4g /\ f.size > Zone4GEnd /\ o.ret = -ENOSPC
        /\ \E f \in PinArgs : \E o \in i915_vma_insert(World, v, f, FALSE) :
              o.searched

\* C29: i915_vma_misplaced is false for a VMA without a node; for a VMA with
\* a node it is true exactly when the error flag is set, or the node is
\* smaller than the size asked, or the alignment asked is non-zero and the
\* node's start is not a multiple of it, or PIN_MAPPABLE is asked and the VMA
\* is not map-and-fenceable, or PIN_OFFSET_BIAS is asked and the node starts
\* below the offset, or PIN_OFFSET_FIXED is asked and the node does not start
\* at the offset.
C29_MisplacedExact ==
    \A v \in Vmas : \A a \in MisplacedArgs :
        LET x == vmas[v]
            start == x.node.start
        IN /\ ~x.node.allocated => ~i915_vma_misplaced(x, a)
           /\ x.node.allocated =>
                 (i915_vma_misplaced(x, a) <=>
                     \/ x.error
                     \/ x.node.size < a.size
                     \/ (a.alignment # 0 /\ start % a.alignment # 0)
                     \/ (a.mappable /\ ~x.canFence)
                     \/ (a.bias /\ start < a.offset)
                     \/ (a.fixed /\ start # a.offset))

\* A VMA without a node beside one with a node at an odd, non-zero address,
\* without the error flag and not map-and-fenceable: each of the tests on
\* size, alignment, mappability, bias and fixed offset decides some call on
\* its own, and some call finds the node well placed.
C29_Witness ==
    \E v \in Vmas : \E u \in Vmas \ {v} :
        LET x == vmas[v]
            none == [size |-> 0, alignment |-> 0, mappable |-> FALSE,
                     bias |-> FALSE, fixed |-> FALSE, offset |-> 0]
        IN /\ ~vmas[u].node.allocated
           /\ x.node.allocated /\ ~x.error /\ ~x.canFence
           /\ x.node.start = 1 /\ x.node.size < VmTotal
           /\ ~i915_vma_misplaced(x, none)
           /\ i915_vma_misplaced(x, [none EXCEPT !.size = VmTotal])
           /\ i915_vma_misplaced(x, [none EXCEPT !.alignment = 2])
           /\ i915_vma_misplaced(x, [none EXCEPT !.mappable = TRUE])
           /\ i915_vma_misplaced(x, [none EXCEPT !.bias = TRUE, !.offset = 2])
           /\ ~i915_vma_misplaced(x, [none EXCEPT !.bias = TRUE, !.offset = 1])
           /\ i915_vma_misplaced(x, [none EXCEPT !.fixed = TRUE, !.offset = 2])

(***************************************************************************)
(*                      Properties of the buffer move                      *)
(***************************************************************************)

\* C5: whenever i915_ttm_move has returned a non-zero error, the recorded
\* placement (bo->resource, the memory region, mem_flags, the domains and the
\* cached io scatter-list) is what it was before the call.
C5_MoveAllOrNothing ==
    (mv.pc = "returned" /\ mv.ret # 0) => Placement(bo) = mv.pre

\* i915_ttm_move returned the error pointer of __i915_ttm_move (an interrupted
\* i915_deps_sync after the blit could not be submitted) on a move to lmem.
C5_Witness ==
    /\ mv.pc = "returned"
    /\ mv.ret = -ERESTARTSYS
    /\ mv.dst = "lmem"
    /\ mv.fault = "none"

\* C6: with fail_gpu_migration set, a copy move (one that did not discard the
\* object) that returned 0 has, once its
\* fence has signaled, a destination equal to the source; the copy was made
\* by the CPU with the clear flag of the move, not the one forced on the
\* blit, and after the forced clear blit when one was submitted.
C6_FallbackCorrect ==
    (/\ mv.pc = "returned" /\ mv.ret = 0
     /\ mv.failGpu /\ ~mv.clear /\ ~mv.purged
     /\ FenceSignaled(mv.fence))
    => /\ dstData = mv.src
       /\ mv.cpuBy # "none"
       /\ mv.cpuClear = mv.clear
       /\ mv.submitted => (gpu.kind = "clear" /\ mv.cpuAfterGpu)

\* A copy of user data with fail_gpu_migration set: the blit was a clear, the
\* worker copied afterwards, the fence has signaled.
C6_Witness ==
    /\ mv.pc = "returned" /\ mv.ret = 0
    /\ mv.failGpu /\ ~mv.clear
    /\ mv.src = "user" /\ dstData = "user"
    /\ gpu.kind = "clear" /\ gpu.state = "signaled"
    /\ mv.fence = "work" /\ copy_work.state = "done"
    /\ mv.cpuBy = "worker"

\* The move was called with fail_gpu_migration set and fail_work_allocation
\* clear.
ScenarioC == mv.failGpu /\ ~mv.failWork

C7_Safe ==
    ScenarioC =>
        /\ copy_work.state # "queued_irq"
        /\ (gpu.cb /\ gpu.state = "signaled") =>
              copy_work.state \in {"queued_worker", "done"}
        /\ copy_work.state = "done" =>
              /\ mv.cpuBy = "worker"
              /\ mv.cpuAfterGpu
              /\ dstData = ttm_move_memcpy(mv.clear, mv.src)
        /\ (mv.submitted /\ mv.pc = "returned") => mv.ret = 0

\* C7: in Scenario C the signaling migration fence makes the callback queue
\* the worker and never the irq work; an armed work is always followed by
\* the worker's CPU copy; and the move, once its blit was submitted, returns 0.
C7_ScenarioC ==
    /\ []C7_Safe
    /\ (ScenarioC /\ copy_work.state = "armed")
          ~> (copy_work.state = "done" /\ mv.cpuBy = "worker")

\* Scenario C after the worker's copy of user data: the move returned 0.
C7_Witness ==
    /\ ScenarioC
    /\ copy_work.state = "done" /\ mv.cpuBy = "worker"
    /\ mv.pc = "returned" /\ mv.ret = 0
    /\ mv.src = "user" /\ dstData = "user"

\* C8: in Scenario D (both switches set) no i915_ttm_memcpy_work is ever
\* allocated, the only CPU copy is the caller's and comes after the migration
\* fence has signaled, and a move whose blit was submitted returns 0 with no
\* fence and the destination copied.
C8_ScenarioD ==
    (mv.failGpu /\ mv.failWork) =>
        /\ mv.allocs = 0
        /\ copy_work.state = "none"
        /\ (mv.submitted /\ mv.cpuBy # "none") =>
              (mv.cpuBy = "caller" /\ mv.cpuAfterGpu)
        /\ (mv.submitted /\ mv.pc = "returned") =>
              /\ mv.ret = 0
              /\ mv.fence = "none"
              /\ mv.cpuBy = "caller"
              /\ dstData = ttm_move_memcpy(mv.clear, mv.src)

\* Scenario D completed on user data.
C8_Witness ==
    /\ mv.failGpu /\ mv.failWork
    /\ mv.submitted /\ mv.pc = "returned" /\ mv.ret = 0
    /\ mv.src = "user" /\ dstData = "user"
    /\ gpu.state = "signaled" /\ gpu.kind = "clear"

(***************************************************************************)
(*                       Properties of cache coloring                      *)
(***************************************************************************)

\* An allocated node other than v whose color is not c and which touches v.
ContiguousDiffers(ns, v, c) ==
    \E u \in MmAllocated(ns) \ {v} :
        /\ ns[u].color # c
        /\ (MmEnd(ns[u]) = ns[v].start \/ MmEnd(ns[v]) = ns[u].start)

\* C11: with cache coloring no two allocated nodes of different color are
\* contiguous, and the node of every successful insert passes
\* i915_gem_valid_gtt_space; i915_gem_valid_gtt_space(vma, color) is false
\* exactly when a neighbour of another color touches the node, and is always
\* true without cache coloring.
C11_Coloring ==
    /\ color_adjust =>
          \A v \in MmAllocated(mmNodes) :
              ~ContiguousDiffers(mmNodes, v, mmNodes[v].color)
    /\ \A v \in MmAllocated(mmNodes), c \in CacheLevels :
          i915_gem_valid_gtt_space(mmNodes, v, c)
              = ~(color_adjust /\ ContiguousDiffers(mmNodes, v, c))
    /\ \A v \in ColorVmas \ MmAllocated(mmNodes) :
          \A offset \in ColorOffsets, evict \in BOOLEAN :
              LET r == ColorVmaInsert(v, offset, evict)
              IN  r.ret = 0 => i915_gem_valid_gtt_space(r.ns, v, r.color)

\* With coloring: two nodes of one color side by side, a node of another
\* color one page further, and a color for which the middle node is not in a
\* valid place.
C11_Witness ==
    /\ color_adjust
    /\ \E u \in ColorVmas, v \in ColorVmas, w \in ColorVmas :
          /\ mmNodes[u].allocated /\ mmNodes[v].allocated /\ mmNodes[w].allocated
          /\ MmEnd(mmNodes[u]) = mmNodes[v].start
          /\ MmEnd(mmNodes[v]) + 1 = mmNodes[w].start
          /\ mmNodes[w].color # mmNodes[v].color
          /\ \E c \in CacheLevels : ~i915_gem_valid_gtt_space(mmNodes, v, c)

(***************************************************************************)
(*                      Properties of the error state                      *)
(***************************************************************************)

\* C12 (as stated): while a VMA's error flag is set every pin attempt, on
\* the quick path and on the slow path, fails and leaves the bind bits and
\* the pin count as they were.
C12_AsStated ==
    \A v \in Vmas : vmas[v].error =>
        \A r \in PinResults(v) :
            /\ r.o.ret # 0
            /\ r.o.w.vs[v].bound = vmas[v].bound
            /\ r.o.w.vs[v].pin = vmas[v].pin

\* C12, the part that holds: while the error flag is set no pin changes the
\* bind bits or the pin count, every pin without PIN_VALIDATE fails, and the
\* only pin that returns 0 is the quick-path probe of bits already bound;
\* an unbind that returns 0 leaves the VMA unbound with the flag clear.
C12_ErrorBlocksBinds ==
    \A v \in Vmas : vmas[v].error =>
        /\ \A r \in PinResults(v) :
              /\ r.o.w.vs[v].bound = vmas[v].bound
              /\ r.o.w.vs[v].pin = vmas[v].pin
              /\ ~r.f.validate => r.o.ret # 0
              /\ r.o.ret = 0 => (r.o.fast /\ r.f.bind \subseteq vmas[v].bound)
        /\ \A r \in UnbindResults(v) :
              r.ret = 0 =>
                  /\ ~r.w.vs[v].error
                  /\ r.w.vs[v].bound = {}
                  /\ ~r.w.vs[v].node.allocated

\* A VMA in the error state on which a PIN_VALIDATE pin of its bound bits
\* returns 0 and a pin without PIN_VALIDATE returns -ENOMEM.
C12_Witness ==
    \E v \in Vmas :
        /\ vmas[v].error
        /\ \E r \in PinResults(v) : r.f.validate /\ r.o.ret = 0 /\ r.o.fast
        /\ \E r \in PinResults(v) : ~r.f.validate /\ r.o.ret = -ENOMEM

(***************************************************************************)
(*                   Properties of i915_vma_unbind_async                   *)
(***************************************************************************)

\* The outcomes of every i915_vma_unbind_async call on VMA v:
\* [trylock, fault, o].
UnbindAsyncResults(v) ==
    UNION {{[trylock |-> c[1], fault |-> c[2], o |-> o] :
               o \in i915_vma_unbind_async(World, v, c[1], c[2])} :
           c \in BOOLEAN \X UnbindAsyncFaults}

\* C13: i915_vma_unbind_async with trylock_vm set never waits for vm->mutex;
\* when another context holds the mutex it returns -EBUSY with the VMA still
\* bound, its node still allocated, nothing of the address space changed,
\* and every wakeref it took released.
C13_TrylockNeverBlocks ==
    \A v \in Vmas : \A r \in UnbindAsyncResults(v) :
        r.trylock =>
            /\ ~r.o.blocked
            /\ r.fault = "trylock" =>
                  /\ r.o.ret = -EBUSY
                  /\ r.o.w = World
                  /\ r.o.w.vs[v].bound # {}
                  /\ r.o.w.vs[v].node.allocated
                  /\ r.o.wakeref_put = r.o.wakeref_get

\* A globally bound VMA whose trylock unbind finds the mutex held: it took a
\* wakeref and released it; the same call without trylock_vm waits.
C13_Witness ==
    \E v \in Vmas :
        /\ I915_VMA_GLOBAL_BIND \in vmas[v].bound
        /\ \E r \in UnbindAsyncResults(v) :
              /\ r.trylock /\ r.fault = "trylock" /\ r.o.ret = -EBUSY
              /\ r.o.wakeref_get = 1 /\ r.o.wakeref_put = 1
        /\ \E r \in UnbindAsyncResults(v) : ~r.trylock /\ r.o.blocked

\* C14: whenever i915_vma_unbind_async unbinds the VMA it returns 0, it got
\* an unbind fence, it added that fence once to the object's reservation
\* object, as a shared fence and never as the exclusive one, and the shared
\* slot had been reserved before __i915_vma_unbind_async ran; it adds no
\* fence on any other path.
C14_SharedFenceAdded ==
    \A v \in Vmas : \A r \in UnbindAsyncResults(v) :
        /\ r.o.w # World =>
              /\ r.o.ret = 0
              /\ r.o.fence
              /\ r.o.reserved
              /\ r.o.shared = 1
              /\ r.o.excl = 0
        /\ r.o.shared # 0 => (r.o.fence /\ r.o.reserved /\ r.o.w # World)
        /\ r.o.excl = 0

\* A bound VMA that i915_vma_unbind_async unbinds, under trylock_vm and
\* without it.
C14_Witness ==
    \E v \in Vmas :
        /\ vmas[v].bound # {}
        /\ \A trylock \in BOOLEAN :
              \E r \in UnbindAsyncResults(v) :
                  /\ r.trylock = trylock /\ r.o.ret = 0
                  /\ ~r.o.w.vs[v].node.allocated /\ r.o.w.vs[v].bound = {}
                  /\ r.o.shared = 1

(***************************************************************************)
(*                   Properties of the power references                    *)
(***************************************************************************)

C16_VmaResConsumedOrFreed ==
    \A v \in Vmas : \A r \in PinResults(v) :
        /\ r.o.res_alloc =>
              \/ r.o.res_installed /\ r.o.res_freed = 0
              \/ ~r.o.res_installed /\ r.o.res_freed = 1
        /\ ~r.o.res_alloc => (~r.o.res_installed /\ r.o.res_freed = 0)
        /\ r.o.res_installed =>
              (vmas[v].resource = NULL /\ r.o.w.vs[v].resource # NULL)

\* A VMA bound with one bit whose pin for the other bit has i915_vma_bind
\* free the vma_res (a resource is installed already), on success and when
\* the moving-fence wait fails; next to it an unbound VMA whose pin installs
\* the vma_res, and one whose i915_vma_bind frees the vma_res it had just
\* installed.
C16_Witness ==
    \E v \in Vmas :
        /\ Cardinality(vmas[v].bound) = 1 /\ vmas[v].resource # NULL
        /\ \E r \in PinResults(v) :
              /\ r.f.bind \ vmas[v].bound # {}
              /\ r.o.ret = 0 /\ ~r.o.fast /\ ~r.o.res_installed
              /\ r.o.res_freed = 1
        /\ \E u \in Vmas \ {v} :
              /\ vmas[u].bound = {} /\ vmas[u].resource = NULL
              /\ \E r \in PinResults(u) : r.o.ret = 0 /\ r.o.res_installed
              /\ \E r \in PinResults(u) :
                    /\ r.fault = "none" /\ r.o.ret = -ERESTARTSYS
                    /\ r.o.res_alloc /\ r.o.res_freed = 1

(***************************************************************************)
(*            Discard, notify-prepare and the error intercept              *)
(***************************************************************************)

\* notify-prepare of the move in mv failed.
NotifyFailed == mv.fault \in {"unbind", "put_pages"}

\* C17: a call of i915_ttm_move on an object whose madvise state was not
\* WILLNEED, once notify-prepare succeeded, has returned 0 with the object
\* purged and the destination placement freed; it built no dependencies,
\* submitted no blit, armed no fallback work and made no CPU copy.
C17_DiscardPolicy ==
    (mv.pc # "idle" /\ mv.madv # "WILLNEED" /\ ~NotifyFailed) =>
        /\ mv.pc = "returned" /\ mv.ret = 0
        /\ mv.purged /\ mv.dstFreed
        /\ bo.madv = "PURGED"
        /\ ~mv.deps /\ ~mv.synced
        /\ ~mv.submitted /\ gpu.state = "none"
        /\ copy_work.state = "none" /\ mv.allocs = 0
        /\ mv.cpuBy = "none"

\* A DONTNEED object that had user data and a GPU binding was moved towards
\* lmem: discarded, and the placement is what it was.
C17_Witness ==
    /\ mv.pc = "returned" /\ mv.ret = 0
    /\ mv.madv = "DONTNEED" /\ mv.purged
    /\ mv.dst = "lmem" /\ mv.src = "user"
    /\ bo.madv = "PURGED" /\ ~bo.bound /\ ~bo.pages
    /\ Placement(bo) = mv.pre

\* The statement of C18 as the specification has it: after a failed
\* notify-prepare the GPU bindings, the pages and the placement of the object
\* are what they were before the call.
C18_AsStated ==
    (mv.pc = "returned" /\ NotifyFailed) =>
        /\ mv.ret # 0
        /\ Placement(bo) = mv.pre
        /\ bo.bound = mv.preBound
        /\ bo.pages = mv.prePages

\* C18: when notify-prepare fails, i915_ttm_move returns its error at once:
\* the placement, the pages and the madvise state of the object are what they
\* were, nothing was purged, submitted or copied. The GPU bindings are
\* untouched when the unbind failed, but are gone when the unbind succeeded
\* and releasing the pages failed.
C18_NotifyFailureAborts ==
    (mv.pc # "idle" /\ NotifyFailed) =>
        /\ mv.pc = "returned"
        /\ mv.ret = (IF mv.fault = "unbind" THEN -EAGAIN ELSE -EBUSY)
        /\ Placement(bo) = mv.pre
        /\ bo.pages = mv.prePages /\ bo.pages
        /\ bo.madv = mv.madv
        /\ ~mv.purged /\ ~mv.dstFreed /\ ~mv.deps
        /\ ~mv.submitted /\ gpu.state = "none" /\ mv.cpuBy = "none"
        /\ mv.fault = "unbind" => (bo.bound /\ mv.preBound)
        /\ mv.fault = "put_pages" => ~bo.bound

\* Releasing the pages of a bound object failed: the move returned -EBUSY and
\* the binding the object had is gone.
C18_Witness ==
    /\ mv.pc = "returned" /\ mv.fault = "put_pages" /\ mv.ret = -EBUSY
    /\ mv.preBound /\ ~bo.bound
    /\ mv.prePages /\ bo.pages
    /\ Placement(bo) = mv.pre

\* The statement of C19 as the specification has it: when the accelerated
\* submission failed outright, the move waits for the dependencies and
\* returns a failure.
C19_AsStated ==
    (mv.pc = "returned" /\ mv.accelErr # 0) => (mv.synced /\ mv.ret # 0)

\* C19: when i915_ttm_accel_move returned an error pointer, __i915_ttm_move
\* waits for the dependencies with i915_deps_sync; only an error of that
\* wait is returned to the caller, with the placement as it was and nothing
\* copied; otherwise the caller makes the CPU copy and the move returns 0 on
\* the destination.
C19_AccelFailureFallsBack ==
    (mv.pc # "idle" /\ mv.accelErr # 0) =>
        /\ mv.pc = "returned"
        /\ mv.deps /\ mv.synced
        /\ ~mv.submitted /\ gpu.state = "none" /\ mv.allocs = 0
        /\ \/ /\ mv.ret = 0
              /\ mv.cpuBy = "caller" /\ mv.cpuClear = mv.clear
              /\ dstData = ttm_move_memcpy(mv.clear, mv.src)
              /\ ~mv.copy => bo.resource = mv.dst
           \/ /\ mv.ret = -ERESTARTSYS
              /\ mv.cpuBy = "none"
              /\ Placement(bo) = mv.pre

\* The blit of user data could not be submitted (-ENOMEM): the dependencies
\* were waited for, the caller copied and the move returned 0.
C19_Witness ==
    /\ mv.pc = "returned" /\ mv.accelErr = -ENOMEM
    /\ mv.synced /\ mv.ret = 0
    /\ mv.cpuBy = "caller"
    /\ mv.src = "user" /\ dstData = "user"
    /\ bo.resource = mv.dst

\* The statement of C20 as the specification has it: when no copy_work could
\* be had and the awaited migration fence carries an error, the move returns
\* an error.
C20_AsStated ==
    (mv.pc = "returned" /\ mv.waited /\ gpu.error) => mv.ret # 0

\* C20: when the blit was submitted and no copy_work could be had,
\* __i915_ttm_move waits for the migration fence; an error on the fence (or
\* fail_gpu_migration) is not returned but makes the caller do the CPU copy
\* after the fence, and the move returns 0 without a fence.
C20_WaitThenCpuFallback ==
    mv.waited =>
        /\ mv.submitted /\ mv.allocs = 0 /\ copy_work.state = "none"
        /\ mv.pc \in {"wait_gpu", "returned"}
        /\ mv.pc = "returned" =>
              /\ gpu.state = "signaled"
              /\ mv.ret = 0 /\ mv.fence = "none"
              /\ ~mv.copy => bo.resource = mv.dst
              /\ IF gpu.error \/ mv.failGpu
                 THEN /\ mv.cpuBy = "caller" /\ mv.cpuAfterGpu
                      /\ dstData = ttm_move_memcpy(mv.clear, mv.src)
                 ELSE mv.cpuBy = "none"

\* kzalloc of the copy_work failed, the blit of user data ended in an error:
\* the move returned 0 after the caller's copy.
C20_Witness ==
    /\ mv.pc = "returned" /\ mv.waited
    /\ ~mv.failGpu /\ ~mv.failWork
    /\ gpu.state = "signaled" /\ gpu.error
    /\ mv.ret = 0 /\ mv.cpuBy = "caller"
    /\ mv.src = "user" /\ dstData = "user"

(***************************************************************************)
(*              The paths of __i915_ttm_move without a blit                *)
(***************************************************************************)

\* Why __i915_ttm_move has no accelerated migration to start with: the
\* caller does not allow it, there is no migrate context or the GT is
\* wedged, or a kernel buffer is to be cleared.
NoAccelReasons == {"disallowed", "no_gt", "kernel_clear"}

\* C21: when acceleration is not allowed or not available, __i915_ttm_move
\* submits nothing and allocates no copy_work; it waits for the dependencies
\* and then either the wait failed, its error is returned and nothing was
\* copied, or the caller made the CPU copy/clear with the clear flag of the
\* call and the call returned 0 without a fence.
C21_NoAccelPath ==
    /\ (mv.pc # "idle" /\ mv.fault = "none" /\ ~mv.allowAccel) =>
          mv.why = "disallowed"
    /\ (mv.pc # "idle" /\ mv.why \in NoAccelReasons) =>
          /\ mv.pc = "returned"
          /\ mv.accelErr = -EINVAL
          /\ (mv.why = "disallowed") => ~mv.allowAccel
          /\ (mv.why = "kernel_clear") =>
                (mv.clear /\ bo.type = "kernel" /\ ~mv.failGpu)
          /\ mv.synced
          /\ ~mv.submitted /\ gpu.state = "none"
          /\ mv.allocs = 0 /\ copy_work.state = "none"
          /\ mv.fence = "none"
          /\ \/ /\ mv.ret = 0
                /\ mv.cpuBy = "caller" /\ mv.cpuClear = mv.clear
                /\ dstData = ttm_move_memcpy(mv.clear, mv.src)
             \/ /\ mv.ret = -ERESTARTSYS
                /\ mv.cpuBy = "none"
                /\ dstData = "stale"

\* i915_gem_obj_copy_ttm of user data without allow_accel: the caller
\* copied and 0 was returned, no fence was added to a reservation object.
C21_Witness ==
    /\ mv.pc = "returned" /\ mv.copy /\ ~mv.allowAccel
    /\ mv.why = "disallowed"
    /\ mv.ret = 0 /\ mv.cpuBy = "caller"
    /\ mv.src = "user" /\ dstData = "user"
    /\ mv.resvExcl = "none" /\ mv.resvShared = "none"

(***************************************************************************)
(*                         The armed fallback work                         *)
(***************************************************************************)

\* The fence of the copy_work was returned by i915_ttm_memcpy_work_arm and
\* has not signaled.
WorkPending == copy_work.state \in {"armed", "queued_worker", "queued_irq"}

C22_Safe ==
    /\ copy_work.signals \in {0, 1}
    /\ WorkPending => copy_work.signals = 0
    /\ copy_work.signals = 1 =>
          /\ copy_work.state = "done"
          /\ gpu.state = "signaled"
          /\ IF gpu.error \/ mv.failGpu
             THEN /\ copy_work.by = "worker"
                  /\ mv.cpuBy = "worker" /\ mv.cpuAfterGpu
             ELSE /\ copy_work.by = "irq_work"
                  /\ mv.cpuBy = "none"

\* C22: once a copy_work is armed on the migration fence, its own fence is
\* signaled, and signaled once: by __memcpy_irq_work when the blit succeeded,
\* by __memcpy_work after the CPU copy when the blit failed (or
\* fail_gpu_migration is set); it never stays pending.
C22_NoCancellation ==
    /\ []C22_Safe
    /\ (copy_work.state = "armed") ~> (copy_work.signals = 1)

\* A blit that succeeded with a work armed on it: __memcpy_irq_work signaled
\* the fence of the work.
C22_Witness ==
    /\ copy_work.state = "done" /\ copy_work.signals = 1
    /\ copy_work.by = "irq_work"
    /\ gpu.state = "signaled" /\ ~gpu.error
    /\ mv.fence = "work" /\ mv.pc = "returned" /\ mv.ret = 0

\* C27: the CPU copy of the fallback never runs in the fence callback or in
\* the irq work. The step in which the migration fence signals (__memcpy_cb)
\* only queues the work or the irq work; the irq work only signals; a CPU
\* copy is made by __memcpy_work alone, or by the thread that called
\* __i915_ttm_move.
C27_CopyContext ==
    [][/\ (gpu.state = "submitted" /\ gpu'.state = "signaled") =>
             /\ mv' = mv
             /\ copy_work' \in
                   {copy_work,
                    [copy_work EXCEPT !.state = "queued_worker"],
                    [copy_work EXCEPT !.state = "queued_irq"]}
       /\ (copy_work.state = "queued_irq" /\ copy_work'.state = "done") =>
             (dstData' = dstData /\ mv' = mv)
       /\ (mv'.cpuBy # "none" /\ mv'.cpuBy # mv.cpuBy) =>
             \/ /\ mv'.cpuBy = "worker"
                /\ copy_work.state = "queued_worker"
             \/ /\ mv'.cpuBy = "caller"
                /\ mv'.pc = "returned"
                /\ mv.pc # "wait_cleanup"]_vars

\* The blit failed with a work armed on it; the callback queued the worker,
\* whose copy of user data is the only CPU copy of the move.
C27_Witness ==
    /\ gpu.cb /\ gpu.state = "signaled" /\ gpu.error
    /\ copy_work.state = "done" /\ copy_work.by = "worker"
    /\ mv.cpuBy = "worker"
    /\ mv.src = "user" /\ dstData = "user"

\* What the blit of the call in mv leaves in the destination.
BlitResult == IF gpu.kind = "clear" THEN "zero" ELSE mv.src

\* C30: a call whose copy_work could not be allocated returns, after the
\* wait for the blit, 0 and no fence. The caller made the CPU copy/clear
\* exactly when the blit failed or fail_gpu_migration is set, and made it
\* after the blit; otherwise the destination holds what the blit wrote and
\* no CPU copy was made.
C30_WorkerAllocFailure ==
    (mv.waited /\ mv.pc = "returned") =>
        /\ mv.ret = 0 /\ mv.fence = "none"
        /\ mv.allocs = 0
        /\ mv.cpuBy \in {"none", "caller"}
        /\ mv.cpuBy = "caller" <=> (gpu.error \/ mv.failGpu)
        /\ mv.cpuBy = "caller" =>
              /\ mv.cpuAfterGpu /\ mv.cpuClear = mv.clear
              /\ dstData = ttm_move_memcpy(mv.clear, mv.src)
        /\ mv.cpuBy = "none" => dstData = BlitResult

\* kzalloc of the copy_work failed and the blit of user data succeeded: the
\* call returned 0 and the CPU copied nothing.
C30_Witness ==
    /\ mv.pc = "returned" /\ mv.waited
    /\ ~mv.failGpu /\ ~mv.failWork
    /\ gpu.state = "signaled" /\ ~gpu.error /\ gpu.kind = "copy"
    /\ mv.ret = 0 /\ mv.cpuBy = "none"
    /\ mv.src = "user" /\ dstData = "user"

(***************************************************************************)
(*                      Properties of the pin count                        *)
(***************************************************************************)

\* C25: under any interleaving of try_qad_pin, the slow path of
\* i915_vma_pin_ww and unpins, no step changes the bits of vma->flags above
\* the pin field; the pin field moves by one at a time and never from its
\* maximum to zero; with the full count the slow path does not pass its test
\* and what it returns is -EAGAIN; with the overflow bit set try_qad_pin
\* returns false and leaves the count.
C25_PinNeverWraps ==
    [][LET pin == PinField(pinw.flags)
           pin2 == PinField(pinw'.flags)
       IN /\ HighBits(pinw'.flags) = HighBits(pinw.flags)
          /\ pin2 \in {pin - 1, pin, pin + 1}
          /\ (pin = I915_VMA_PIN_MASK /\ pinw.pc = "idle") =>
                /\ pinw'.pc = "idle"
                /\ pin2 <= pin
                /\ (pinw'.ret # pinw.ret /\ ~PinWordError(pinw.flags)) =>
                      pinw'.ret = -EAGAIN
          /\ ((pin \div I915_VMA_OVERFLOW) % 2 = 1 /\ pinw'.qad # pinw.qad) =>
                (pinw'.qad = "false" /\ pin2 = pin)
          /\ ((pin \div I915_VMA_OVERFLOW) % 2 = 1 /\ pin2 = pin + 1) =>
                (pinw.pc = "checked" /\ pinw'.pc = "idle")
      ]_vars

\* The pin field at its maximum under a bind bit, after the slow path has
\* returned -EAGAIN and try_qad_pin has returned false.
C25_Witness ==
    /\ PinField(pinw.flags) = I915_VMA_PIN_MASK
    /\ HighBits(pinw.flags) = 1
    /\ pinw.pc = "idle"
    /\ pinw.ret = -EAGAIN
    /\ pinw.qad = "false"

(***************************************************************************)
(*                      Properties of the closed list                      *)
(***************************************************************************)

\* C26: a GGTT VMA is never on a closed list, whatever is called on it; a VMA
\* goes from no list to gt->closed_vma only in the step that takes its open
\* count from one to zero, and a step that lowers the open count destroys
\* nothing; a VMA on a list is alive and not open; a VMA leaves
\* gt->closed_vma alive only reopened or into i915_vma_parked's local list;
\* a VMA on that local list is next destroyed or back on gt->closed_vma; and
\* a VMA is destroyed only from the local list, or with its object.
C26_DeferredReclaim ==
    [][\A v \in CloseVmas :
         LET x == gtc[v]
             y == gtc'[v]
         IN /\ x.ggtt => (x.list = "none" /\ y.list = "none")
            /\ (x.list = "none" /\ y.list # "none") =>
                  (y.list = "gt" /\ x.open_count = 1 /\ y.open_count = 0)
            /\ y.open_count < x.open_count =>
                  (y.refs = x.refs /\ (y.open_count > 0 => y.list = x.list))
            /\ x.list # "none" => (x.refs > 0 /\ x.open_count = 0)
            /\ y.list # "none" => (y.refs > 0 /\ y.open_count = 0)
            /\ (x.list = "gt" /\ y.list = "none" /\ y.refs > 0) =>
                  y.open_count = 1
            /\ x.list = "local" =>
                  \/ y = x
                  \/ y.list = "none" /\ y.refs = 0
                  \/ y = [x EXCEPT !.list = "gt"]
            /\ (x.refs > 0 /\ y.refs = 0) => (x.list = "local" \/ x.dying)
      ]_vars

\* i915_vma_parked has destroyed one closed VMA and left another, closed as
\* well, on gt->closed_vma, while the GGTT VMA is alive and on no list.
C26_Witness ==
    /\ ~ParkedRunning
    /\ \E v \in CloseVmas : gtc[v].refs = 0 /\ ~gtc[v].dying
    /\ \E v \in CloseVmas : gtc[v].list = "gt" /\ ~gtc[v].dying
    /\ \E v \in CloseVmas : gtc[v].ggtt /\ gtc[v].refs > 0

(***************************************************************************)
(*                    Properties of the order of a bind                    *)
(***************************************************************************)

\* The statement of C23 as the specification has it: when the node of the
\* VMA is allocated, every unbind in flight over its range has been waited
\* for or is awaited.
C23_AsStated ==
    (bs.node # 0 /\ bs.unbinds[bs.node] = "pending") =>
        bs.node \in bs.awaitUnbinds

\* C23: a pin of an unbound VMA allocates the node first and then, before
\* any page-table entry is written and before the bind bits are set, waits
\* for every asynchronous unbind in flight over the node's range (inline
\* bind) or puts them all on the chain of the binding work (asynchronous
\* bind), which programs nothing until they have signaled; when that step
\* fails the pin returns the error with the node removed and nothing bound.
C23_UnbindsAwaitedBeforeBind ==
    /\ bs.pte = "programmed" => bs.unbinds[bs.node] # "pending"
    /\ (bs.bound /\ bs.unbinds[bs.node] = "pending") =>
          (BindAsyncPath(bs) /\ bs.work = "committed"
           /\ bs.node \in bs.awaitUnbinds)
    /\ (bs.pc = "deps" /\ ~BindAsyncPath(bs)) =>
          bs.unbinds[bs.node] # "pending"
    /\ (bs.pc = "done" /\ bs.why = "deps") =>
          (bs.ret # 0 /\ bs.node = 0 /\ ~bs.bound /\ bs.pte = "none")

\* The binding work has programmed the page tables of a node whose range
\* had an unbind in flight when the node was allocated, and which it awaited.
C23_Witness ==
    /\ bs.work = "ran" /\ bs.pte = "programmed"
    /\ bs.node # 0 /\ bs.node \in bs.awaitUnbinds
    /\ bs.unbinds[bs.node] = "signaled"

\* C28: no page-table entry is written while the object's moving fence is
\* unsignaled. Inline, a failed wait for the moving fence makes
\* i915_vma_bind return the error with bind_vma not called and nothing
\* bound; asynchronously, the committed work has the moving fence the pin
\* took and the previous exclusive fence of the VMA on its chain, and has
\* written the entries only with both signaled.
C28_BindAfterMovingFence ==
    /\ bs.pte = "programmed" => bs.moving # "pending"
    /\ (bs.pc = "done" /\ bs.why = "moving") =>
          (bs.ret # 0 /\ bs.pte = "none" /\ ~bs.bound /\ bs.work # "ran")
    /\ bs.work \in {"committed", "ran", "skipped"} =>
          /\ bs.took => bs.awaitMoving
          /\ bs.prev # "none" => bs.awaitPrev
    /\ bs.work = "ran" =>
          (bs.moving \in {"none", "signaled"} /\ bs.prev # "pending")

\* The binding work has programmed the page tables after the moving fence
\* and the previous exclusive fence, both on its chain, signaled.
C28_Witness ==
    /\ bs.work = "ran" /\ bs.pte = "programmed"
    /\ bs.awaitMoving /\ bs.moving = "signaled"
    /\ bs.awaitPrev /\ bs.prev = "signaled"

(***************************************************************************)
(*                  Properties of the error intercept                      *)
(***************************************************************************)

\* C31: once a blit was submitted for a destination that is not bound as
\* lmem, with neither fault switch set, __i915_ttm_move has decided: the fence
\* it returns is the GPU fence, no copy_work was allocated or armed, no
\* callback sits on the GPU fence, it waited for nothing and no CPU copy is
\* made by anyone, whether the blit then succeeds or fails.
C31_InterceptOnlyForLmem ==
    ( /\ mv.submitted /\ mv.pc \notin {"idle", "submitted"}
      /\ ~i915_ttm_gtt_binds_lmem(mv.dst)
      /\ ~mv.failGpu /\ ~mv.failWork ) =>
        /\ mv.fence = "gpu"
        /\ mv.allocs = 0
        /\ copy_work.state = "none"
        /\ ~gpu.cb
        /\ ~mv.waited
        /\ mv.cpuBy = "none"

\* A move to system memory whose blit was submitted, returned as the GPU
\* fence, and then failed: nothing copied on the CPU.
C31_Witness ==
    /\ mv.pc = "returned" /\ mv.ret = 0 /\ mv.submitted
    /\ mv.dst = "system" /\ ~mv.failGpu /\ ~mv.failWork
    /\ mv.fence = "gpu"
    /\ gpu.state = "signaled" /\ gpu.error
    /\ mv.cpuBy = "none"

(***************************************************************************)
(*                 Properties of i915_gem_obj_copy_ttm                     *)
(***************************************************************************)

\* C34: when i915_gem_obj_copy_ttm has returned, either __i915_ttm_move gave
\* it a fence (the GPU fence or the fence of the armed copy_work), it
\* returned 0 and that fence is the exclusive fence added to the
\* destination's reservation object and the shared fence added to the
\* source's; or the copy was made synchronously or failed, and no fence was
\* added to either. Before it returns it has added none.
C34_CopyFencesRegistered ==
    mv.copy =>
        /\ mv.pc # "returned" =>
              (mv.resvExcl = "none" /\ mv.resvShared = "none")
        /\ (mv.pc = "returned" /\ mv.fence # "none") =>
              /\ mv.ret = 0
              /\ mv.fence \in {"gpu", "work"}
              /\ mv.resvExcl = mv.fence
              /\ mv.resvShared = mv.fence
        /\ (mv.pc = "returned" /\ (mv.fence = "none" \/ mv.ret # 0)) =>
              (mv.resvExcl = "none" /\ mv.resvShared = "none")

\* A copy into lmem that returned the fence of the armed copy_work, now on
\* both reservation objects, with the blit still in flight.
C34_Witness ==
    /\ mv.copy /\ mv.pc = "returned" /\ mv.ret = 0
    /\ mv.fence = "work" /\ copy_work.state = "armed"
    /\ mv.resvExcl = "work" /\ mv.resvShared = "work"

(***************************************************************************)
(*                      Properties of __i915_ggtt_pin                      *)
(***************************************************************************)

\* The calls __i915_ggtt_pin makes: i915_vma_pin_ww(vma, ww, 0, align,
\* flags | PIN_GLOBAL).
GgttPinArgs ==
    {f \in PinArgs : I915_VMA_GLOBAL_BIND \in f.bind /\ f.size = 0}

\* i915_vma_wait_for_bind waits interruptibly for the exclusive fence of
\* vma->active, which the binding work of an asynchronous bind sets: the
\* wait can only fail when some binding of this VMA was made by a work.
BindFenceMayPend(x) == (x.bound \cap vmAsync) # {}

\* One turn of the loop of __i915_ggtt_pin on VMA v: the pin, then either
\* the return (after the wait for the bind when the pin succeeded) or the
\* eviction before the next turn. waitFail: the wait for the bind is
\* interrupted; lockIntr: mutex_lock_interruptible is. Outcome: the world,
\* whether the function returned and what, what i915_vma_pin_ww returned,
\* the pins that call took and the pins i915_vma_unpin dropped.
GgttPinTurn(v, f, fault, waitFail, lockIntr) ==
    {[w |-> IF o.ret = -ENOSPC /\ ~lockIntr
            THEN EvictAll(o.w, Evictable(o.w.vs, v))
            ELSE o.w,
      returned |-> o.ret # -ENOSPC,
      ret |-> IF o.ret = 0 /\ waitFail THEN -ERESTARTSYS ELSE o.ret,
      pinret |-> o.ret,
      taken |-> o.w.vs[v].pin - vmas[v].pin,
      dropped |-> IF o.ret = 0 /\ waitFail THEN 1 ELSE 0]
     : o \in i915_vma_pin_ww(v, f, fault)}

\* Every turn a caller of __i915_ggtt_pin can see on VMA v.
GgttPinResults(v) ==
    IF vmas[v].pin >= MaxPin THEN {}
    ELSE UNION {{[f |-> c[1], fault |-> c[2], waitFail |-> wf,
                  lockIntr |-> li, o |-> o]
                 : o \in {t \in GgttPinTurn(v, c[1], c[2], wf, li) :
                            wf => BindFenceMayPend(t.w.vs[v])}}
                : c \in {d \in PinCalls : d[1] \in GgttPinArgs},
                  wf \in BOOLEAN, li \in BOOLEAN}

\* What __i915_ggtt_pin does with the result of the pin: it returns every
\* result but -ENOSPC, an error unchanged; on -ENOSPC it evicts every
\* unpinned VMA of the address space (if it got the mutex) and goes round.
GgttPinLoopRule(r) ==
    /\ r.o.returned => r.o.ret # -ENOSPC
    /\ r.o.pinret = -ENOSPC =>
          /\ ~r.o.returned
          /\ ~r.lockIntr =>
                \A u \in Vmas : r.o.w.vs[u].node.allocated =>
                                   i915_vma_is_pinned(r.o.w.vs[u])
    /\ r.o.pinret \notin {0, -ENOSPC} =>
          (r.o.returned /\ r.o.ret = r.o.pinret)
    /\ (r.o.pinret = 0 /\ r.waitFail) => (r.o.returned /\ r.o.ret # 0)

\* C32 (as stated): __i915_ggtt_pin never returns -ENOSPC, evicts and
\* retries on -ENOSPC, returns any other error unchanged, and when the wait
\* for the bind fails it drops the pin it just took, so that an error
\* return leaves the pin count as it was: the pins dropped are the pins
\* taken.
C32_AsStated ==
    \A v \in Vmas : \A r \in GgttPinResults(v) :
        /\ GgttPinLoopRule(r)
        /\ (r.o.returned /\ r.o.ret # 0) => r.o.dropped = r.o.taken

\* The same for every call that does not carry PIN_VALIDATE.
GgttPinBalancedUnlessValidate ==
    \A v \in Vmas : \A r \in GgttPinResults(v) :
        /\ GgttPinLoopRule(r)
        /\ (r.o.returned /\ r.o.ret # 0 /\ ~r.f.validate) =>
              r.o.dropped = r.o.taken

\* A PIN_VALIDATE call on a VMA that earlier pins bound and left unpinned:
\* i915_vma_pin_ww succeeds without taking a pin, the wait for the bind is
\* interrupted, and i915_vma_unpin drops a pin that this call never took.
C32_Witness ==
    \E v \in Vmas : \E r \in GgttPinResults(v) :
        /\ vmas[v].pin = 0 /\ I915_VMA_GLOBAL_BIND \in vmas[v].bound
        /\ BindFenceMayPend(vmas[v])
        /\ r.f.validate /\ r.o.pinret = 0 /\ r.waitFail
        /\ r.o.returned /\ r.o.ret = -ERESTARTSYS
        /\ r.o.taken = 0 /\ r.o.dropped = 1

\* C33 (as stated): i915_ggtt_pin terminates: every call eventually
\* returns, also when the size exceeds the address space or its mappable
\* window and when eviction frees no space.
C33_Terminates == (gp.pc = "pin") ~> (gp.pc = "returned")

\* A call for a VMA larger than the range it may be placed in: the pin has
\* failed with -ENOSPC at once and the loop is about to evict and retry.
C33_Witness ==
    /\ gp.pc = "flush" /\ gp.ret = -ENOSPC
    /\ InsertOversize(gp.size, GgttEnd(gp))

\* While the VMA does not fit its range the call never returns.
GgttOversizeNeverReturns ==
    [][(gp.pc \in {"pin", "flush"} /\ InsertOversize(gp.size, GgttEnd(gp))
        /\ ~(gp.pc = "pin" /\ gp'.ret = -EINTR))
       => gp'.pc \in {"pin", "flush"}]_vars

(***************************************************************************)
(*                      Properties of the pin races                        *)
(***************************************************************************)

\* C35: pinned implies bound: in every reachable state, under any
\* interleaving of try_qad_pin, the slow-path pin, unpin, unbind and
\* unbind_async on one VMA, a VMA with pin count > 0 has a bind bit set and
\* an allocated node, and the assertion of __i915_vma_evict that the VMA is
\* not pinned never fails.
C35_PinnedImpliesBound ==
    /\ pb.pin > 0 => (pb.bound # {} /\ pb.node)
    /\ ~pb.bug

\* One thread holds a pin that try_qad_pin took without vm->mutex and the
\* unbind of another thread has been refused with -EAGAIN.
C35_Witness ==
    \E t, u \in RaceThreads :
        /\ t # u /\ pb.pin > 0
        /\ pb.t[t].held > 0 /\ pb.t[t].via = "qad"
        /\ pb.t[u].pc = "idle" /\ pb.t[u].ret = -EAGAIN

(***************************************************************************)
(*                    Properties of the binding work                       *)
(***************************************************************************)

\* A pin that has bound the VMA and whose binding work, if one was
\* committed armed, is no longer waiting to run.
BindSettled ==
    bs.pc = "done" /\ bs.ret = 0 /\ bs.bound /\ bs.work # "committed"

PinMisplacedArgs(f) ==
    [size |-> f.size, alignment |-> f.align, mappable |-> f.mappable,
     bias |-> FALSE, fixed |-> f.fixed # -1,
     offset |-> IF f.fixed # -1 THEN f.fixed ELSE 0]

\* The pin r of VMA v went through i915_vma_bind for new bind bits and
\* reached the assertions at the end of the slow path.
PinReachedAssertions(v, r) ==
    r.o.ret = 0 /\ ~r.o.fast /\ r.f.bind \ vmas[v].bound # {}

\* C37 (as stated): whenever i915_vma_pin_ww binds successfully, the VMA is
\* bound for all requested bind flags and i915_vma_misplaced(vma, size,
\* alignment, flags) is false, also when the VMA had a node from an earlier
\* bind with another bind bit.
C37_AsStated ==
    \A v \in Vmas : \A r \in PinResults(v) :
        PinReachedAssertions(v, r) =>
            /\ r.f.bind \subseteq r.o.w.vs[v].bound
            /\ ~i915_vma_misplaced(r.o.w.vs[v], PinMisplacedArgs(r.f))

\* The assertions hold for every pin that found the VMA without bind bits,
\* and the first of them for every pin.
PinAssertionsOfFreshBind ==
    \A v \in Vmas : \A r \in PinResults(v) :
        PinReachedAssertions(v, r) =>
            /\ r.f.bind \subseteq r.o.w.vs[v].bound
            /\ vmas[v].bound = {} =>
                  ~i915_vma_misplaced(r.o.w.vs[v], PinMisplacedArgs(r.f))

\* A VMA bound with one bind bit by an earlier pin and now unpinned; a pin
\* asking for the other bit binds it on the node it has, which does not
\* satisfy the request.
C37_Witness ==
    \E v \in Vmas : \E r \in PinResults(v) :
        /\ vmas[v].bound # {} /\ vmas[v].node.allocated
        /\ PinReachedAssertions(v, r)
        /\ r.o.w.vs[v].node = vmas[v].node
        /\ i915_vma_misplaced(r.o.w.vs[v], PinMisplacedArgs(r.f))

(***************************************************************************)
(*               The life of an i915_ttm_memcpy_work                       *)
(***************************************************************************)

\* C38: every i915_ttm_memcpy_work allocated by __i915_ttm_move is released
\* exactly once. Freed synchronously by __i915_ttm_move (arming failed
\* because the GPU fence had signaled): its scatter-list references were
\* put once, it was kfreed once, no callback was ever registered for it and
\* no callback ran. Armed: it belongs to the callback registered on the
\* unsignaled GPU fence, then to exactly one of __memcpy_work /
\* __memcpy_irq_work, which puts the references once and drops the fence
\* reference once; it is never kfreed by __i915_ttm_move. An allocation
\* always ends in one of the two.
C38_WorkReleasedOnce ==
    /\ copy_work.released <= 1 /\ copy_work.kfreed <= 1 /\ copy_work.puts <= 1
    /\ copy_work.state = "none" =>
          (mv.pc = "returned" => mv.allocs = 0)
    /\ copy_work.state = "freed" =>
          /\ copy_work.released = 1 /\ copy_work.kfreed = 1
          /\ copy_work.puts = 0 /\ copy_work.by = "none" /\ ~gpu.cb
    /\ copy_work.state = "armed" =>
          /\ gpu.cb /\ gpu.state = "submitted"
          /\ copy_work.released = 0 /\ copy_work.kfreed = 0
          /\ copy_work.puts = 0
    /\ copy_work.state \in {"queued_worker", "queued_irq"} =>
          /\ gpu.cb /\ gpu.state = "signaled"
          /\ copy_work.released = 0 /\ copy_work.kfreed = 0
          /\ copy_work.puts = 0
    /\ copy_work.state = "done" =>
          /\ copy_work.released = 1 /\ copy_work.puts = 1
          /\ copy_work.kfreed = 0
          /\ copy_work.by \in {"worker", "irq_work"}
    /\ (mv.pc = "returned" /\ mv.allocs > 0) =>
          /\ mv.allocs = 1
          /\ copy_work.state \in {"freed", "armed", "queued_worker",
                                  "queued_irq", "done"}

\* The blit failed after the work was armed: __memcpy_work made the copy,
\* released the references and dropped the fence reference.
C38_Witness ==
    /\ copy_work.state = "done" /\ copy_work.by = "worker"
    /\ copy_work.released = 1 /\ copy_work.puts = 1 /\ gpu.error

(***************************************************************************)
(*                  Properties of the page references                      *)
(***************************************************************************)

\* The temporary reference of a pin in progress.
PagesTemp == IF pg.pc \in {"lock", "put"} THEN 1 ELSE 0

\* C39: page references of a VMA are balanced: pages_count is one
\* I915_VMA_PAGES_ACTIVE for each successful bind since the last unbind,
\* plus the temporary reference of the pin in progress, which every
\* i915_vma_pin_ww that took it drops before it returns whatever its
\* result; and with no bind bits and no pin in progress (after a successful
\* unbind) pages_count is zero, vma->pages is NULL and the object's pages
\* have been unpinned as often as they were pinned; while references exist
\* the object's pages are pinned once. No assertion of the accounting
\* fires.
C39_PageRefsBalanced ==
    /\ pg.pages_count = pg.nbind * I915_VMA_PAGES_ACTIVE + PagesTemp
    /\ (pg.bound = {}) = (pg.nbind = 0)
    /\ (pg.bound = {} /\ pg.pc \in {"idle", "get"}) =>
          (pg.pages_count = 0 /\ ~pg.pages /\ pg.objPins = 0)
    /\ pg.pages_count > 0 => (pg.pages /\ pg.objPins = 1)
    /\ ~pg.bug

\* A VMA bound twice (one bind for each bit) has been unbound with no pin
\* in progress: both bindings' references are gone.
C39_Witness ==
    /\ pg.dropped = 2 /\ pg.bound = {} /\ pg.pc = "idle"
    /\ pg.pages_count = 0 /\ ~pg.pages /\ pg.objPins = 0
    /\ pg.ret = 0

(***************************************************************************)
(*                   Properties of i915_vma_pin_iomap                      *)
(***************************************************************************)

\* The pins the threads of S account for: those their successful calls
\* hold and the one of a call between __i915_vma_pin and its return.
RECURSIVE IomapPins(_)
IomapPins(S) ==
    IF S = {} THEN 0
    ELSE LET t == CHOOSE t \in S : TRUE IN
         io.t[t].held + (IF io.t[t].pc = "fence" THEN 1 ELSE 0)
         + IomapPins(S \ {t})

\* C40: with several contexts in i915_vma_pin_iomap on one bound VMA, one
\* mapping is stored in vma->iomap: the only mappings that exist besides
\* it belong to calls that have not yet tried or have just lost the
\* cmpxchg, and a finished call leaves none of its own behind; every call
\* that succeeded returned the stored pointer, and a call past the cmpxchg
\* carries it; the pin count is what the successful calls hold plus the
\* pins of the calls still before their return, so that a call that
\* returned success raised it by one and a call that returned an error
\* left it unchanged.
C40_OneIomap ==
    /\ io.iomap # 0 => io.iomap \in io.live
    /\ \A m \in io.live : m = io.iomap \/ io.t[m].pc \in {"cas", "unmap"}
    /\ \A t \in IomapThreads :
          /\ io.t[t].got # 0 => (io.t[t].ret = 0 /\ io.t[t].got = io.iomap)
          /\ io.t[t].pc \in {"pin", "fence"} =>
                (io.t[t].ptr # 0 /\ io.t[t].ptr = io.iomap)
          /\ (io.t[t].pc = "idle" /\ io.t[t].ret # 0) => io.t[t].got = 0
          /\ io.t[t].held \in {0, 1}
          /\ io.t[t].held = 1 => io.t[t].ret = 0
    /\ io.pin = IomapPins(IomapThreads)

\* Two calls raced: both created a mapping, one stored its own, the other
\* lost the cmpxchg, unmapped its mapping and returned the stored pointer;
\* both hold a pin.
C40_Witness ==
    \E t, u \in IomapThreads :
        /\ t # u /\ io.iomap = t /\ io.live = {t}
        /\ io.t[t].pc = "idle" /\ io.t[t].ret = 0 /\ io.t[t].got = t
        /\ io.t[u].pc = "idle" /\ io.t[u].ret = 0 /\ io.t[u].got = t
        /\ io.t[u].lost /\ io.pin = 2

====
